---- MODULE Spec2Model ----
(***************************************************************************)
(* Model of the seccomp BPF compiler (src/seccomp/src/lib.rs) and of the   *)
(* jailer's run() (src/jailer/src/lib.rs).                                  *)
(*                                                                         *)
(* Machine words.  TLC's integers are 32-bit signed, so a Rust u32 is kept *)
(* as a pair <<hi, lo>> of 16-bit limbs and a u64 / i64 as four 16-bit     *)
(* limbs, most significant first.  u8 values are plain integers and every  *)
(* u8 addition is reduced modulo 256.                                      *)
(***************************************************************************)
EXTENDS Integers, Sequences, FiniteSets, TLC

VARIABLES
    build,          \* "debug" | "release": overflow checks on or off
    phase,          \* position of the scenario a specification plays
    inp,            \* the inputs a specification drew for a pure function
    rules,          \* SeccompFilterContext.rules: syscall number -> (priority, chain)
    default_action, \* SeccompFilterContext.default_action
    api_result,     \* result of the last seccomp call: [call, res, ...]
    no_new_privs,   \* the kernel's no-new-privileges bit of the process
    filters,        \* the BPF program under execution / installed in the kernel
    data,           \* the seccomp_data the kernel runs the filter on
    pc,             \* BPF program counter
    A,              \* BPF accumulator (u32)
    ret,            \* value returned by the filter, <<>> while running
    fds,            \* jailer: the process descriptor table
    fd_limit,       \* jailer: sysconf(_SC_OPEN_MAX)
    jpc,            \* jailer: position inside run()
    jres,           \* jailer: the value run() returned, "none" while running
    jfs,            \* jailer: file-system effects performed so far
    jlog            \* jailer: steps performed so far, in order

vars == <<build, phase, inp, rules, default_action, api_result, no_new_privs,
          filters, data, pc, A, ret, fds, fd_limit, jpc, jres, jfs, jlog>>

seccompVars == <<rules, default_action, api_result, no_new_privs>>
kernelVars == <<filters, data, pc, A, ret>>
jailerVars == <<fds, fd_limit, jpc, jres, jfs, jlog>>

----------------------------------------------------------------------------
(* 16-bit limbs, u32 and u64 words                                          *)

U8_MAX == 255
LimbMod == 2 ^ 16
U8Mod == U8_MAX + 1

\* a & b and a | b on n-bit words, n a power of two, by halves
RECURSIVE And16(_, _, _)
And16(a, b, n) ==
    IF n = 1 THEN a * b
    ELSE And16(a % (2 ^ (n \div 2)), b % (2 ^ (n \div 2)), n \div 2)
           + (2 ^ (n \div 2)) * And16(a \div (2 ^ (n \div 2)), b \div (2 ^ (n \div 2)), n \div 2)

RECURSIVE Or16(_, _, _)
Or16(a, b, n) ==
    IF n = 1 THEN a + b - a * b
    ELSE Or16(a % (2 ^ (n \div 2)), b % (2 ^ (n \div 2)), n \div 2)
           + (2 ^ (n \div 2)) * Or16(a \div (2 ^ (n \div 2)), b \div (2 ^ (n \div 2)), n \div 2)

U32(n) == <<n \div LimbMod, n % LimbMod>>
U32And(x, y) == <<And16(x[1], y[1], 16), And16(x[2], y[2], 16)>>
U32Or(x, y) == <<Or16(x[1], y[1], 16), Or16(x[2], y[2], 16)>>
U32Gt(x, y) == x[1] > y[1] \/ (x[1] = y[1] /\ x[2] > y[2])
U32Ge(x, y) == x = y \/ U32Gt(x, y)

U64(a, b, c, d) == <<a, b, c, d>>
U64And(x, y) == [i \in 1..4 |-> And16(x[i], y[i], 16)]
\* (v >> 32) as u32 and v as u32
HighU32(v) == <<v[1], v[2]>>
LowU32(v) == <<v[3], v[4]>>

\* u8 addition as the release build performs it, and whether it overflows
U8Add(a, b) == (a + b) % U8Mod
U8Overflows(a, b) == a + b >= U8Mod

----------------------------------------------------------------------------
(* Constants of lib.rs                                                      *)

BPF_MAX_LEN == 4096

BPF_LD == 0
BPF_ALU == 4
BPF_JMP == 5
BPF_RET == 6
BPF_W == 0
BPF_ABS == 32
BPF_AND == 80
BPF_JA == 0
BPF_JEQ == 16
BPF_JGT == 32
BPF_JGE == 48
BPF_K == 0

SECCOMP_RET_ALLOW == <<32767, 0>>
SECCOMP_RET_ERRNO == <<5, 0>>
SECCOMP_RET_KILL == <<0, 0>>
SECCOMP_RET_LOG == <<32764, 0>>
SECCOMP_RET_TRACE == <<32752, 0>>
SECCOMP_RET_TRAP == <<3, 0>>
SECCOMP_RET_MASK == <<0, 65535>>

\* 62 | 0x80000000 | 0x40000000 = 0xC000003E
AUDIT_ARCH_X86_64 == U32Or(U32Or(<<0, 62>>, <<32768, 0>>), <<16384, 0>>)

ARG_NUMBER_MAX == 5
CONDITION_MAX_LEN == 6

SECCOMP_DATA_NR_OFFSET == 0
SECCOMP_DATA_ARGS_OFFSET == 16
SECCOMP_DATA_ARG_SIZE == 8

EINVAL == 22
EACCES == 13

----------------------------------------------------------------------------
(* sock_filter and its two constructors                                     *)

BPF_JUMP(code, k, jt, jf) == [code |-> code, jt |-> jt, jf |-> jf, k |-> k]
BPF_STMT(code, k) == [code |-> code, jt |-> 0, jf |-> 0, k |-> k]

\* variant: the architecture test falls through to the filter on a mismatch
VALIDATE_ARCHITECTURE_FallThrough ==
    << BPF_STMT(BPF_LD + BPF_W + BPF_ABS, U32(4)),
       BPF_JUMP(BPF_JMP + BPF_JEQ + BPF_K, AUDIT_ARCH_X86_64, 1, 1),
       BPF_STMT(BPF_RET + BPF_K, SECCOMP_RET_KILL) >>

VALIDATE_ARCHITECTURE ==
    << BPF_STMT(BPF_LD + BPF_W + BPF_ABS, U32(4)),
       BPF_JUMP(BPF_JMP + BPF_JEQ + BPF_K, AUDIT_ARCH_X86_64, 1, 0),
       BPF_STMT(BPF_RET + BPF_K, SECCOMP_RET_KILL) >>

EXAMINE_SYSCALL == << BPF_STMT(BPF_LD + BPF_W + BPF_ABS, U32(0)) >>

\* syscall_number is an i64; `as u32` keeps its low 32 bits
ALLOW_SYSCALL(syscall_number) ==
    << BPF_JUMP(BPF_JMP + BPF_JEQ + BPF_K, LowU32(syscall_number), 0, 1),
       BPF_STMT(BPF_RET + BPF_K, SECCOMP_RET_ALLOW) >>

SIGNAL_PROCESS == << BPF_STMT(BPF_RET + BPF_K, SECCOMP_RET_TRAP) >>

----------------------------------------------------------------------------
(* SeccompCondition                                                         *)
(* A condition is [arg_number, operator, mask, value]; mask is read only    *)
(* for operator "MaskedEq".                                                 *)

CmpOps == {"Eq", "Ge", "Gt", "Le", "Lt", "MaskedEq", "Ne"}

Cond(arg, op, mask, value) ==
    [arg_number |-> arg, operator |-> op, mask |-> mask, value |-> value]

\* variant: the test of the argument number is off by one
SeccompConditionNew_OffByOne(arg, op, mask, value) ==
    IF arg > ARG_NUMBER_MAX + 1
    THEN [ok |-> FALSE, err |-> "InvalidArgumentNumber"]
    ELSE [ok |-> TRUE, cond |-> Cond(arg, op, mask, value)]

\* SeccompCondition::new
SeccompConditionNew(arg, op, mask, value) ==
    IF arg > ARG_NUMBER_MAX
    THEN [ok |-> FALSE, err |-> "InvalidArgumentNumber"]
    ELSE [ok |-> TRUE, cond |-> Cond(arg, op, mask, value)]

\* little-endian target: the least significant half comes first
value_segments(c) ==
    LET arg_offset ==
            U8Add(SECCOMP_DATA_ARGS_OFFSET, (c.arg_number * SECCOMP_DATA_ARG_SIZE) % U8Mod)
    IN  [ msb |-> HighU32(c.value),
          lsb |-> LowU32(c.value),
          msb_offset |-> U8Add(arg_offset, SECCOMP_DATA_ARG_SIZE \div 2),
          lsb_offset |-> arg_offset ]

\* variant: the failure exit of the upper half is one instruction short
into_eq_bpf_ShortExit(c, offset) ==
    LET s == value_segments(c)
    IN  << BPF_STMT(BPF_LD + BPF_W + BPF_ABS, U32(s.msb_offset)),
           BPF_JUMP(BPF_JMP + BPF_JEQ + BPF_K, s.msb, 0, U8Add(offset, 1)),
           BPF_STMT(BPF_LD + BPF_W + BPF_ABS, U32(s.lsb_offset)),
           BPF_JUMP(BPF_JMP + BPF_JEQ + BPF_K, s.lsb, 0, offset) >>

into_eq_bpf(c, offset) ==
    LET s == value_segments(c)
    IN  << BPF_STMT(BPF_LD + BPF_W + BPF_ABS, U32(s.msb_offset)),
           BPF_JUMP(BPF_JMP + BPF_JEQ + BPF_K, s.msb, 0, U8Add(offset, 2)),
           BPF_STMT(BPF_LD + BPF_W + BPF_ABS, U32(s.lsb_offset)),
           BPF_JUMP(BPF_JMP + BPF_JEQ + BPF_K, s.lsb, 0, offset) >>

into_ge_bpf(c, offset) ==
    LET s == value_segments(c)
    IN  << BPF_STMT(BPF_LD + BPF_W + BPF_ABS, U32(s.msb_offset)),
           BPF_JUMP(BPF_JMP + BPF_JGT + BPF_K, s.msb, 3, 0),
           BPF_JUMP(BPF_JMP + BPF_JEQ + BPF_K, s.msb, 0, U8Add(offset, 2)),
           BPF_STMT(BPF_LD + BPF_W + BPF_ABS, U32(s.lsb_offset)),
           BPF_JUMP(BPF_JMP + BPF_JGE + BPF_K, s.lsb, 0, offset) >>

into_gt_bpf(c, offset) ==
    LET s == value_segments(c)
    IN  << BPF_STMT(BPF_LD + BPF_W + BPF_ABS, U32(s.msb_offset)),
           BPF_JUMP(BPF_JMP + BPF_JGT + BPF_K, s.msb, 3, 0),
           BPF_JUMP(BPF_JMP + BPF_JEQ + BPF_K, s.msb, 0, U8Add(offset, 2)),
           BPF_STMT(BPF_LD + BPF_W + BPF_ABS, U32(s.lsb_offset)),
           BPF_JUMP(BPF_JMP + BPF_JGT + BPF_K, s.lsb, 0, offset) >>

into_le_bpf(c, offset) ==
    LET s == value_segments(c)
    IN  << BPF_STMT(BPF_LD + BPF_W + BPF_ABS, U32(s.msb_offset)),
           BPF_JUMP(BPF_JMP + BPF_JGT + BPF_K, s.msb, U8Add(offset, 3), 0),
           BPF_JUMP(BPF_JMP + BPF_JEQ + BPF_K, s.msb, 0, 2),
           BPF_STMT(BPF_LD + BPF_W + BPF_ABS, U32(s.lsb_offset)),
           BPF_JUMP(BPF_JMP + BPF_JGT + BPF_K, s.lsb, offset, 0) >>

into_lt_bpf(c, offset) ==
    LET s == value_segments(c)
    IN  << BPF_STMT(BPF_LD + BPF_W + BPF_ABS, U32(s.msb_offset)),
           BPF_JUMP(BPF_JMP + BPF_JGT + BPF_K, s.msb, U8Add(offset, 3), 0),
           BPF_JUMP(BPF_JMP + BPF_JEQ + BPF_K, s.msb, 0, 2),
           BPF_STMT(BPF_LD + BPF_W + BPF_ABS, U32(s.lsb_offset)),
           BPF_JUMP(BPF_JMP + BPF_JGE + BPF_K, s.lsb, offset, 0) >>

into_masked_eq_bpf(c, offset, mask) ==
    LET s == value_segments(c)
        masked_value == U64And(c.value, mask)
    IN  << BPF_STMT(BPF_LD + BPF_W + BPF_ABS, U32(s.msb_offset)),
           BPF_STMT(BPF_ALU + BPF_AND + BPF_K, HighU32(mask)),
           BPF_JUMP(BPF_JMP + BPF_JEQ + BPF_K, HighU32(masked_value), 0, U8Add(offset, 3)),
           BPF_STMT(BPF_LD + BPF_W + BPF_ABS, U32(s.lsb_offset)),
           BPF_STMT(BPF_ALU + BPF_AND + BPF_K, LowU32(mask)),
           BPF_JUMP(BPF_JMP + BPF_JEQ + BPF_K, LowU32(masked_value), 0, offset) >>

into_ne_bpf(c, offset) ==
    LET s == value_segments(c)
    IN  << BPF_STMT(BPF_LD + BPF_W + BPF_ABS, U32(s.msb_offset)),
           BPF_JUMP(BPF_JMP + BPF_JEQ + BPF_K, s.msb, 0, 2),
           BPF_STMT(BPF_LD + BPF_W + BPF_ABS, U32(s.lsb_offset)),
           BPF_JUMP(BPF_JMP + BPF_JEQ + BPF_K, s.lsb, offset, 0) >>

\* SeccompCondition::into_bpf
condition_into_bpf(c, offset) ==
    CASE c.operator = "Eq" -> into_eq_bpf(c, offset)
      [] c.operator = "Ge" -> into_ge_bpf(c, offset)
      [] c.operator = "Gt" -> into_gt_bpf(c, offset)
      [] c.operator = "Le" -> into_le_bpf(c, offset)
      [] c.operator = "Lt" -> into_lt_bpf(c, offset)
      [] c.operator = "MaskedEq" -> into_masked_eq_bpf(c, offset, c.mask)
      [] c.operator = "Ne" -> into_ne_bpf(c, offset)

\* the u8 additions `offset + 2` / `offset + 3` of the fragment overflow:
\* a panic in a build with overflow checks, a wrap-around without
condition_overflows(c, offset) ==
    CASE c.operator \in {"Eq", "Ge", "Gt"} -> U8Overflows(offset, 2)
      [] c.operator \in {"Le", "Lt", "MaskedEq"} -> U8Overflows(offset, 3)
      [] c.operator = "Ne" -> FALSE

----------------------------------------------------------------------------
(* SeccompAction: [kind, x], x the u32 payload of Errno and Trace           *)

ActionKinds == {"Allow", "Errno", "Kill", "Log", "Trace", "Trap"}

Action(kind, x) == [kind |-> kind, x |-> x]

\* the conversion without the SECCOMP_RET_MASK on the payload
ActionToU32_Unmasked(action) ==
    CASE action.kind = "Allow" -> SECCOMP_RET_ALLOW
      [] action.kind = "Errno" -> U32Or(SECCOMP_RET_ERRNO, action.x)
      [] action.kind = "Kill" -> SECCOMP_RET_KILL
      [] action.kind = "Log" -> SECCOMP_RET_LOG
      [] action.kind = "Trace" -> U32Or(SECCOMP_RET_TRACE, action.x)
      [] action.kind = "Trap" -> SECCOMP_RET_TRAP

\* impl From<SeccompAction> for u32
ActionToU32(action) ==
    CASE action.kind = "Allow" -> SECCOMP_RET_ALLOW
      [] action.kind = "Errno" -> U32Or(SECCOMP_RET_ERRNO, U32And(action.x, SECCOMP_RET_MASK))
      [] action.kind = "Kill" -> SECCOMP_RET_KILL
      [] action.kind = "Log" -> SECCOMP_RET_LOG
      [] action.kind = "Trace" -> U32Or(SECCOMP_RET_TRACE, U32And(action.x, SECCOMP_RET_MASK))
      [] action.kind = "Trap" -> SECCOMP_RET_TRAP

----------------------------------------------------------------------------
(* SeccompRule: [conditions, action]                                        *)

SeccompRuleNew(conditions, action) == [conditions |-> conditions, action |-> action]

\* variant: helper jumps whose second jump goes as far as the third
helper_jumps_SecondLeavesChain(offset) ==
    << BPF_STMT(BPF_JMP + BPF_JA, U32(2)),
       BPF_STMT(BPF_JMP + BPF_JA, U32(offset + 2)),
       BPF_STMT(BPF_JMP + BPF_JA, U32(offset + 1)) >>

\* the three helper jumps append_condition pushes when the offset is about
\* to leave the 8-bit range
helper_jumps(offset) ==
    << BPF_STMT(BPF_JMP + BPF_JA, U32(2)),
       BPF_STMT(BPF_JMP + BPF_JA, U32(offset + 1)),
       BPF_STMT(BPF_JMP + BPF_JA, U32(offset + 1)) >>

\* variant: the test leaves one instruction less of room
needs_helper_jumps_Late(offset) == offset + CONDITION_MAX_LEN > U8_MAX

\* `*offset as u16 + CONDITION_MAX_LEN + 1 > ::std::u8::MAX as u16`
needs_helper_jumps(offset) == offset + CONDITION_MAX_LEN + 1 > U8_MAX

\* append_condition, first half: when the offset is about to leave the 8-bit
\* range the helper jumps are pushed and the offset starts again at 1
with_helper_jumps(st) ==
    IF needs_helper_jumps(st.offset)
    THEN [st EXCEPT !.accumulator = Append(@, helper_jumps(st.offset)),
                    !.rule_len = @ + 3,
                    !.offset = 1]
    ELSE st

\* append_condition, second half: the compiled condition is pushed and
\* counted; overflow records that a u8 addition left 0..255 on the way
push_condition(st, condition, fragment) ==
    [ accumulator |-> Append(st.accumulator, fragment),
      rule_len |-> st.rule_len + Len(fragment),
      offset |-> U8Add(st.offset, Len(fragment) % U8Mod),
      overflow |-> \/ st.overflow
                   \/ condition_overflows(condition, st.offset)
                   \/ U8Overflows(st.offset, Len(fragment) % U8Mod) ]

compile_condition(st, condition) ==
    push_condition(st, condition, condition_into_bpf(condition, st.offset))

\* SeccompRule::append_condition on the state [accumulator, rule_len, offset]
append_condition(st, condition) == compile_condition(with_helper_jumps(st), condition)

\* the loop of into_bpf over conditions[lo..hi], in order; the range is
\* walked by halves
RECURSIVE AppendConditions(_, _, _, _)
AppendConditions(st, conditions, lo, hi) ==
    IF st.offset < 0 \/ lo > hi THEN st
    ELSE IF lo = hi THEN append_condition(st, conditions[lo])
    ELSE AppendConditions(AppendConditions(st, conditions, lo, (lo + hi) \div 2),
                          conditions, (lo + hi) \div 2 + 1, hi)

\* variant: the second entry jump is one instruction short
rule_jumps_Short(offset) ==
    << BPF_STMT(BPF_JMP + BPF_JA, U32(1)),
       BPF_STMT(BPF_JMP + BPF_JA, U32(offset)) >>

\* variant: the entry jumps in the other order
rule_jumps_Swapped(offset) ==
    << BPF_STMT(BPF_JMP + BPF_JA, U32(offset + 1)),
       BPF_STMT(BPF_JMP + BPF_JA, U32(1)) >>

\* the two entry jumps of a rule
rule_jumps(offset) ==
    << BPF_STMT(BPF_JMP + BPF_JA, U32(1)),
       BPF_STMT(BPF_JMP + BPF_JA, U32(offset + 1)) >>

\* accumulator.into_iter().rev(): the slices, last pushed first
RECURSIVE ConcatRev(_, _, _)
ConcatRev(accumulator, lo, hi) ==
    IF lo > hi THEN <<>>
    ELSE IF lo = hi THEN accumulator[lo]
    ELSE ConcatRev(accumulator, (lo + hi) \div 2 + 1, hi)
           \o ConcatRev(accumulator, lo, (lo + hi) \div 2)

\* the accumulator state of SeccompRule::into_bpf before the first condition
rule_start(action) ==
    [ accumulator |-> << << BPF_STMT(BPF_RET + BPF_K, ActionToU32(action)) >> >>,
      rule_len |-> 1,
      offset |-> 1,
      overflow |-> FALSE ]

\* the accumulator state of SeccompRule::into_bpf after all conditions
RuleState(rule) ==
    AppendConditions(
        [ accumulator |-> << << BPF_STMT(BPF_RET + BPF_K, ActionToU32(rule.action)) >> >>,
          rule_len |-> 1,
          offset |-> 1,
          overflow |-> FALSE ],
        rule.conditions, 1, Len(rule.conditions))

\* variant: the slices of the conditions are laid out in the order pushed
finish_rule_ListOrder(st) ==
    rule_jumps(st.offset)
      \o ConcatRev([i \in 1..(Len(st.accumulator) - 1) |->
                       st.accumulator[Len(st.accumulator) + 1 - i]],
                   1, Len(st.accumulator) - 1)
      \o st.accumulator[1]

\* the end of SeccompRule::into_bpf: the entry jumps are pushed and the
\* slices are laid out in reverse
finish_rule(st) ==
    ConcatRev(Append(st.accumulator, rule_jumps(st.offset)), 1, Len(st.accumulator) + 1)

\* SeccompRule::into_bpf
rule_into_bpf(rule) == finish_rule(RuleState(rule))

\* a build with overflow checks panics while it compiles the rule
rule_overflows(rule) == RuleState(rule).overflow

----------------------------------------------------------------------------
(* SeccompFilterContext                                                     *)
(* rules is a function from the syscall numbers that have a chain to        *)
(* [priority, chain].                                                       *)

NoRules == [n \in {} |-> [priority |-> 0, chain |-> <<>>]]

\* SeccompFilterContext::new
ContextNew(map, action) ==
    IF \E n \in DOMAIN map : Len(map[n].chain) = 0
    THEN [ok |-> FALSE, err |-> "EmptyRulesVector"]
    ELSE [ok |-> TRUE, rules |-> map, default_action |-> action]

\* Option<i64>: None is the empty sequence, Some(p) the sequence of p
None == <<>>
Some(p) == <<p>>
\* default_priority.unwrap_or(0)
UnwrapOr0(default_priority) == IF default_priority = None THEN 0 ELSE default_priority[1]

\* variant: add_rules without the test for an empty vector
ContextAddRules_Unchecked(map, syscall_number, default_priority, new_rules) ==
    LET entry == IF syscall_number \in DOMAIN map
                 THEN map[syscall_number]
                 ELSE [priority |-> UnwrapOr0(default_priority), chain |-> <<>>]
        updated == [entry EXCEPT !.chain = @ \o new_rules]
    IN  [ ok |-> TRUE,
          rules |-> [n \in DOMAIN map \cup {syscall_number} |->
                        IF n = syscall_number THEN updated ELSE map[n]] ]

\* variant: add_rules that gives an existing chain the supplied priority
ContextAddRules_TakesPriority(map, syscall_number, default_priority, new_rules) ==
    IF Len(new_rules) = 0
    THEN [ok |-> FALSE, err |-> "EmptyRulesVector", rules |-> map]
    ELSE LET entry == IF syscall_number \in DOMAIN map
                      THEN [map[syscall_number] EXCEPT
                               !.priority = IF default_priority = None THEN @
                                            ELSE default_priority[1]]
                      ELSE [priority |-> UnwrapOr0(default_priority), chain |-> <<>>]
             updated == [entry EXCEPT !.chain = @ \o new_rules]
         IN  [ ok |-> TRUE,
               rules |-> [n \in DOMAIN map \cup {syscall_number} |->
                             IF n = syscall_number THEN updated ELSE map[n]] ]

\* SeccompFilterContext::add_rules
ContextAddRules(map, syscall_number, default_priority, new_rules) ==
    IF Len(new_rules) = 0
    THEN [ok |-> FALSE, err |-> "EmptyRulesVector", rules |-> map]
    ELSE LET entry == IF syscall_number \in DOMAIN map
                      THEN map[syscall_number]
                      ELSE [priority |-> UnwrapOr0(default_priority), chain |-> <<>>]
             updated == [entry EXCEPT !.chain = @ \o new_rules]
         IN  [ ok |-> TRUE,
               rules |-> [n \in DOMAIN map \cup {syscall_number} |->
                             IF n = syscall_number THEN updated ELSE map[n]] ]

\* the compiled rules chain[lo..hi], one after the other
RECURSIVE ConcatRules(_, _, _)
ConcatRules(chain, lo, hi) ==
    IF lo > hi THEN <<>>
    ELSE IF lo = hi THEN rule_into_bpf(chain[lo])
    ELSE ConcatRules(chain, lo, (lo + hi) \div 2)
           \o ConcatRules(chain, (lo + hi) \div 2 + 1, hi)

\* variant: a block that does not close with the default action
built_syscall_NoDefault(syscall_number, chain, default_action_code) ==
    << BPF_JUMP(BPF_JMP + BPF_JEQ + BPF_K, LowU32(syscall_number), 0, 1) >>
      \o ConcatRules(chain, 1, Len(chain))

\* variant: a guard whose not-equal branch skips both entry jumps
built_syscall_GuardIntoBody(syscall_number, chain, default_action_code) ==
    << BPF_JUMP(BPF_JMP + BPF_JEQ + BPF_K, LowU32(syscall_number), 0, 2) >>
      \o ConcatRules(chain, 1, Len(chain))
      \o << BPF_STMT(BPF_RET + BPF_K, default_action_code) >>

\* the block append_syscall_chain builds for one syscall number
built_syscall(syscall_number, chain, default_action_code) ==
    << BPF_JUMP(BPF_JMP + BPF_JEQ + BPF_K, LowU32(syscall_number), 0, 1) >>
      \o ConcatRules(chain, 1, Len(chain))
      \o << BPF_STMT(BPF_RET + BPF_K, default_action_code) >>

\* SeccompFilterContext::append_syscall_chain on [accumulator, context_len, err];
\* starts keeps the index at which each block begins
\* variant: the running total may reach BPF_MAX_LEN
push_syscall_Lax(st, block) ==
    [ accumulator |-> st.accumulator \o block,
      context_len |-> st.context_len + Len(block),
      err |-> st.context_len + Len(block) > BPF_MAX_LEN,
      starts |-> Append(st.starts, st.context_len) ]

push_syscall(st, block) ==
    [ accumulator |-> st.accumulator \o block,
      context_len |-> st.context_len + Len(block),
      err |-> st.context_len + Len(block) >= BPF_MAX_LEN,
      starts |-> Append(st.starts, st.context_len) ]

append_syscall_chain(st, syscall_number, chain, default_action_code) ==
    push_syscall(st, built_syscall(syscall_number, chain, default_action_code))

\* try_for_each: stops at the first chain that fails
RECURSIVE AppendChains(_, _, _, _, _)
AppendChains(st, map, order, default_action_code, i) ==
    IF st.err \/ i > Len(order) THEN st
    ELSE AppendChains(
             append_syscall_chain(st, order[i], map[order[i]].chain, default_action_code),
             map, order, default_action_code, i + 1)

\* SeccompFilterContext::into_bpf; order is the sequence of syscall numbers
\* the sort of the collected hash map yields
\* variant: the program does not close with the default action
finish_context_NoDefault(st, default_action_code) ==
    IF st.err
    THEN [ok |-> FALSE, err |-> "ContextTooLarge", prog |-> <<>>, starts |-> <<>>]
    ELSE [ok |-> TRUE, prog |-> st.accumulator, starts |-> st.starts]

finish_context(st, default_action_code) ==
    IF st.err
    THEN [ok |-> FALSE, err |-> "ContextTooLarge", prog |-> <<>>, starts |-> <<>>]
    ELSE [ok |-> TRUE,
          prog |-> st.accumulator \o << BPF_STMT(BPF_RET + BPF_K, default_action_code) >>,
          starts |-> st.starts]

\* variant: the program begins with the load of another word than the number
compile_context_LoadsArch(map, order, default_action_code) ==
    finish_context(
        AppendChains(
            [ accumulator |-> << BPF_STMT(BPF_LD + BPF_W + BPF_ABS, U32(4)) >>,
              context_len |-> 1,
              err |-> FALSE,
              starts |-> <<>> ],
            map, order, default_action_code, 1),
        default_action_code)

compile_context(map, order, default_action_code) ==
    finish_context(
        AppendChains(
            [ accumulator |-> << BPF_STMT(BPF_LD + BPF_W + BPF_ABS,
                                          U32(SECCOMP_DATA_NR_OFFSET)) >>,
              context_len |-> 1,
              err |-> FALSE,
              starts |-> <<>> ],
            map, order, default_action_code, 1),
        default_action_code)

context_into_bpf(map, action, order) == compile_context(map, order, ActionToU32(action))

\* the orders `vec.sort_by(priority, reversed)` can leave the chains in: the
\* hash map is collected in an unspecified order and the sort is stable, so
\* chains of equal priority come out in any order
RECURSIVE Perms(_)
Perms(S) ==
    IF S = {} THEN { <<>> }
    ELSE UNION { { <<x>> \o p : p \in Perms(S \ {x}) } : x \in S }

\* variant: the sort without .reverse()
SortedOrders_Ascending(map) ==
    { o \in Perms(DOMAIN map) :
        \A i \in 1..(Len(o) - 1) : map[o[i]].priority <= map[o[i + 1]].priority }

SortedOrders(map) ==
    { o \in Perms(DOMAIN map) :
        \A i \in 1..(Len(o) - 1) : map[o[i]].priority >= map[o[i + 1]].priority }

\* the filters vector of setup_seccomp when it reaches its return or its
\* first prctl call; level is [kind, rules, default_action, allowed_syscalls]
RECURSIVE AllowSyscalls(_, _)
AllowSyscalls(allowed_syscalls, i) ==
    IF i > Len(allowed_syscalls) THEN <<>>
    ELSE ALLOW_SYSCALL(allowed_syscalls[i]) \o AllowSyscalls(allowed_syscalls, i + 1)

\* variant: a context that does not compile does not end setup_seccomp
advanced_filters_NoReturn(r) ==
    IF r.ok
    THEN [ok |-> TRUE, returns |-> FALSE,
          prog |-> VALIDATE_ARCHITECTURE \o r.prog,
          starts |-> [j \in 1..Len(r.starts) |-> Len(VALIDATE_ARCHITECTURE) + r.starts[j]]]
    ELSE [ok |-> FALSE, returns |-> FALSE, prog |-> VALIDATE_ARCHITECTURE, starts |-> <<>>]

\* Advanced: the prologue before the compiled context, or the EINVAL return
advanced_filters(r) ==
    IF r.ok
    THEN [ok |-> TRUE, returns |-> FALSE,
          prog |-> VALIDATE_ARCHITECTURE \o r.prog,
          starts |-> [j \in 1..Len(r.starts) |-> Len(VALIDATE_ARCHITECTURE) + r.starts[j]]]
    ELSE [ok |-> FALSE, returns |-> TRUE, prog |-> VALIDATE_ARCHITECTURE, starts |-> <<>>]

\* variant: level None does not return before the prctl calls
setup_filters_NoneInstalls(level, order) ==
    CASE level.kind = "Advanced" ->
            advanced_filters(context_into_bpf(level.rules, level.default_action, order))
      [] level.kind = "Basic" ->
            [ok |-> TRUE, returns |-> FALSE,
             prog |-> VALIDATE_ARCHITECTURE \o EXAMINE_SYSCALL
                        \o AllowSyscalls(level.allowed_syscalls, 1) \o SIGNAL_PROCESS,
             starts |-> <<>>]
      [] level.kind = "None" ->
            [ok |-> TRUE, returns |-> FALSE, prog |-> VALIDATE_ARCHITECTURE, starts |-> <<>>]

setup_filters(level, order) ==
    CASE level.kind = "Advanced" ->
            advanced_filters(context_into_bpf(level.rules, level.default_action, order))
      [] level.kind = "Basic" ->
            [ok |-> TRUE, returns |-> FALSE,
             prog |-> VALIDATE_ARCHITECTURE \o EXAMINE_SYSCALL
                        \o AllowSyscalls(level.allowed_syscalls, 1) \o SIGNAL_PROCESS,
             starts |-> <<>>]
      [] level.kind = "None" ->
            [ok |-> TRUE, returns |-> TRUE, prog |-> VALIDATE_ARCHITECTURE, starts |-> <<>>]

----------------------------------------------------------------------------
(* The kernel running a classic BPF filter on a seccomp_data                *)
(* data is [nr, arch, instruction_pointer, args]: nr and arch are u32       *)
(* words, instruction_pointer a u64, args six u64.  pc counts from 0.       *)

NoRet == <<>>
OutOfProgram == LimbMod

\* the 32-bit word of struct seccomp_data at byte offset k (little-endian)
LoadWord(d, k) ==
    LET off == k[2]
    IN  CASE k[1] = 0 /\ off = 0 -> d.nr
          [] k[1] = 0 /\ off = 4 -> d.arch
          [] k[1] = 0 /\ off = 8 -> LowU32(d.instruction_pointer)
          [] k[1] = 0 /\ off = 12 -> HighU32(d.instruction_pointer)
          [] k[1] = 0 /\ off >= 16 /\ off < 64 /\ off % 8 = 0 ->
                LowU32(d.args[((off - 16) \div 8) + 1])
          [] k[1] = 0 /\ off >= 16 /\ off < 64 /\ off % 8 = 4 ->
                HighU32(d.args[((off - 16) \div 8) + 1])
          [] OTHER -> <<0, 0>>

\* a forward jump of k instructions from the instruction after p
JumpBy(p, k) == IF k[1] > 0 THEN OutOfProgram ELSE p + 1 + k[2]

\* one instruction: the next [pc, A, ret]
BpfStep(prog, d, p, acc) ==
    LET ins == prog[p + 1]
    IN  CASE ins.code = BPF_LD + BPF_W + BPF_ABS ->
                [pc |-> p + 1, A |-> LoadWord(d, ins.k), ret |-> NoRet]
          [] ins.code = BPF_ALU + BPF_AND + BPF_K ->
                [pc |-> p + 1, A |-> U32And(acc, ins.k), ret |-> NoRet]
          [] ins.code = BPF_JMP + BPF_JA ->
                [pc |-> JumpBy(p, ins.k), A |-> acc, ret |-> NoRet]
          [] ins.code = BPF_JMP + BPF_JEQ + BPF_K ->
                [pc |-> p + 1 + (IF acc = ins.k THEN ins.jt ELSE ins.jf),
                 A |-> acc, ret |-> NoRet]
          [] ins.code = BPF_JMP + BPF_JGT + BPF_K ->
                [pc |-> p + 1 + (IF U32Gt(acc, ins.k) THEN ins.jt ELSE ins.jf),
                 A |-> acc, ret |-> NoRet]
          [] ins.code = BPF_JMP + BPF_JGE + BPF_K ->
                [pc |-> p + 1 + (IF U32Ge(acc, ins.k) THEN ins.jt ELSE ins.jf),
                 A |-> acc, ret |-> NoRet]
          [] ins.code = BPF_RET + BPF_K ->
                [pc |-> p, A |-> acc, ret |-> ins.k]

\* the kernel starts the installed filter on a system call
SyscallEnter(d) ==
    /\ phase = "installed"
    /\ phase' = "running"
    /\ data' = d
    /\ pc' = 0
    /\ A' = <<0, 0>>
    /\ ret' = NoRet
    /\ UNCHANGED <<build, inp, filters, seccompVars, jailerVars>>

\* the kernel executes the instruction at pc
FilterStep ==
    /\ phase = "running"
    /\ pc < Len(filters)
    /\ LET n == BpfStep(filters, data, pc, A)
       IN  /\ pc' = n.pc
           /\ A' = n.A
           /\ ret' = n.ret
           /\ phase' = IF n.ret # NoRet THEN "returned"
                       ELSE IF n.pc >= Len(filters) THEN "exited"
                       ELSE "running"
    /\ UNCHANGED <<build, inp, filters, data, seccompVars, jailerVars>>

----------------------------------------------------------------------------
(* The seccomp API: new, add_rules, setup_seccomp                           *)

\* what a prctl call may answer: success, or an errno
PrctlErrnos == {0, EINVAL, EACCES}

\* a prctl call made, with the errno it answered
Prctl(option, errno) == <<option, errno>>

NoErr == <<"", 0>>
ApiResult(call, ok, err, prctl) == [call |-> call, ok |-> ok, err |-> err, prctl |-> prctl]

\* of setup_seccomp the model also keeps the chain order its sort produced and
\* the index in filters at which each chain's block begins
SetupResult(ok, err, prctl, order, starts) ==
    [call |-> "setup_seccomp", ok |-> ok, err |-> err, prctl |-> prctl,
     order |-> order, starts |-> starts]

AdvancedLevel(map, action) ==
    [kind |-> "Advanced", rules |-> map, default_action |-> action, allowed_syscalls |-> <<>>]
BasicLevel(allowed_syscalls) ==
    [kind |-> "Basic", rules |-> NoRules, default_action |-> Action("Trap", <<0, 0>>),
     allowed_syscalls |-> allowed_syscalls]
NoneLevel ==
    [kind |-> "None", rules |-> NoRules, default_action |-> Action("Trap", <<0, 0>>),
     allowed_syscalls |-> <<>>]

\* SeccompFilterContext::new(map, action); inp keeps the arguments of the call
New(map, action) ==
    /\ phase = "start"
    /\ inp' = [call |-> "new", rules |-> map, default_action |-> action]
    /\ LET r == ContextNew(map, action)
       IN  IF r.ok
           THEN /\ rules' = r.rules
                /\ default_action' = r.default_action
                /\ phase' = "built"
                /\ api_result' = ApiResult("new", TRUE, NoErr, <<>>)
           ELSE /\ phase' = "new_failed"
                /\ api_result' = ApiResult("new", FALSE, <<r.err, 0>>, <<>>)
                /\ UNCHANGED <<rules, default_action>>
    /\ UNCHANGED <<build, no_new_privs, kernelVars, jailerVars>>

\* context.add_rules(syscall_number, default_priority, new_rules)
AddRules(syscall_number, default_priority, new_rules) ==
    /\ phase = "built"
    /\ inp' = [call |-> "add_rules", syscall_number |-> syscall_number,
               default_priority |-> default_priority, new_rules |-> new_rules]
    /\ LET r == ContextAddRules(rules, syscall_number, default_priority, new_rules)
       IN  /\ rules' = r.rules
           /\ api_result' = ApiResult("add_rules", r.ok,
                                      IF r.ok THEN NoErr ELSE <<r.err, 0>>, <<>>)
    /\ UNCHANGED <<build, phase, default_action, no_new_privs, kernelVars, jailerVars>>

\* variant: the answer of the first prctl call is not looked at
LoadFilters_IgnoreNnp(f, order) ==
    /\ filters' = f.prog
    /\ IF f.returns
       THEN \* level None, or a context that does not compile
            /\ phase' = IF f.ok THEN "disabled" ELSE "setup_failed"
            /\ api_result' = SetupResult(f.ok, IF f.ok THEN NoErr ELSE <<"Load", EINVAL>>,
                                         <<>>, order, f.starts)
            /\ UNCHANGED no_new_privs
       ELSE \E nnp_errno \in PrctlErrnos, seccomp_errno \in PrctlErrnos :
              LET seccomp_rc == IF Len(f.prog) > BPF_MAX_LEN /\ seccomp_errno = 0
                                THEN EINVAL ELSE seccomp_errno
              IN       /\ no_new_privs' = (no_new_privs \/ nnp_errno = 0)
                       /\ phase' = IF seccomp_rc = 0 THEN "installed" ELSE "setup_failed"
                       /\ api_result' = SetupResult(seccomp_rc = 0,
                                            IF seccomp_rc = 0 THEN NoErr
                                            ELSE <<"Load", seccomp_rc>>,
                                            <<Prctl("PR_SET_NO_NEW_PRIVS", nnp_errno),
                                              Prctl("PR_SET_SECCOMP", seccomp_rc)>>,
                                            order, f.starts)

\* the rest of setup_seccomp once the filters f are built.  The two prctl
\* calls answer nnp_errno and seccomp_errno (0: success); the kernel refuses
\* a program of more than BPF_MAX_LEN instructions with EINVAL.
LoadFilters(f, order) ==
    /\ filters' = f.prog
    /\ IF f.returns
       THEN \* level None, or a context that does not compile
            /\ phase' = IF f.ok THEN "disabled" ELSE "setup_failed"
            /\ api_result' = SetupResult(f.ok, IF f.ok THEN NoErr ELSE <<"Load", EINVAL>>,
                                         <<>>, order, f.starts)
            /\ UNCHANGED no_new_privs
       ELSE \E nnp_errno \in PrctlErrnos, seccomp_errno \in PrctlErrnos :
              LET seccomp_rc == IF Len(f.prog) > BPF_MAX_LEN /\ seccomp_errno = 0
                                THEN EINVAL ELSE seccomp_errno
              IN  IF nnp_errno # 0
                  THEN /\ phase' = "setup_failed"
                       /\ api_result' = SetupResult(FALSE, <<"Load", nnp_errno>>,
                                            <<Prctl("PR_SET_NO_NEW_PRIVS", nnp_errno)>>,
                                            order, f.starts)
                       /\ UNCHANGED no_new_privs
                  ELSE /\ no_new_privs' = TRUE
                       /\ phase' = IF seccomp_rc = 0 THEN "installed" ELSE "setup_failed"
                       /\ api_result' = SetupResult(seccomp_rc = 0,
                                            IF seccomp_rc = 0 THEN NoErr
                                            ELSE <<"Load", seccomp_rc>>,
                                            <<Prctl("PR_SET_NO_NEW_PRIVS", 0),
                                              Prctl("PR_SET_SECCOMP", seccomp_rc)>>,
                                            order, f.starts)

\* setup_seccomp(level).  order: the chain order the sort leaves.
SetupSeccomp(level, order) ==
    /\ phase = "built"
    /\ LoadFilters(setup_filters(level, order), order)
    /\ UNCHANGED <<build, inp, rules, default_action, data, pc, A, ret, jailerVars>>

----------------------------------------------------------------------------
(* Values the specifications draw their inputs from                         *)

\* syscall numbers (i64): 1, 9 and 2^32 + 1, whose low 32 bits are those of 1
SYS_1 == <<0, 0, 0, 1>>
SYS_9 == <<0, 0, 0, 9>>
SYS_WIDE_1 == <<0, 1, 0, 1>>
SyscallNumbers == {SYS_1, SYS_9, SYS_WIDE_1}

Small(n) == <<0, 0, 0, n>>
Wide(n) == <<0, 1, 0, n>>
Zero64 == Small(0)

MaxLongConds == 42

\* n copies of a condition
Repeat(c, n) == [i \in 1..n |-> c]

RuleAllow == SeccompRuleNew(<<>>, Action("Allow", <<0, 0>>))
RuleEq == SeccompRuleNew(<<Cond(0, "Eq", Zero64, Small(1))>>, Action("Errno", <<0, 1>>))
RuleLeNe ==
    SeccompRuleNew(<<Cond(2, "Le", Zero64, Small(14)), Cond(2, "Ne", Zero64, Small(10))>>,
                   Action("Log", <<0, 0>>))
\* as long as the rule of test_rule_many_conditions_bpf_output
RuleLong ==
    SeccompRuleNew(Repeat(Cond(0, "MaskedEq", Small(1), Small(1)), MaxLongConds)
                     \o <<Cond(2, "Eq", Zero64, Small(14))>>,
                   Action("Trace", <<0, 2>>))

ShortChains == { <<RuleEq, RuleAllow>>, <<RuleLeNe, RuleEq>>, <<RuleEq>> }
LongChains == { <<RuleLong, RuleEq>> }
\* the long rule is drawn for the chain of syscall 9 only, and the chain of
\* 2^32 + 1 is the one-rule chain
ChainsFor(n) ==
    CASE n = SYS_9 -> ShortChains \cup LongChains
      [] n = SYS_1 -> ShortChains
      [] OTHER -> { <<RuleEq>> }
Priorities == {0, 1}
DefaultActions == { Action("Trap", <<0, 0>>) }

MaxChains == 2

\* the policies over SyscallNumbers with at most MaxChains chains
Policies ==
    UNION { { m \in [D -> [priority : Priorities, chain : ShortChains \cup LongChains]] :
                \A n \in D : m[n].chain \in ChainsFor(n) } :
              D \in { S \in SUBSET SyscallNumbers : Cardinality(S) <= MaxChains } }

BasicLists == { <<>>, <<SYS_1>>, <<SYS_9, SYS_1>>, <<SYS_WIDE_1>> }

FilterLevels ==
    { AdvancedLevel(m, a) : m \in Policies, a \in DefaultActions }
      \cup { BasicLevel(l) : l \in BasicLists }
      \cup { NoneLevel }

\* seccomp_data values: syscall numbers 1 and 9, both architectures
SeccompData(nr, arch, arg0, arg2) ==
    [nr |-> nr, arch |-> arch, instruction_pointer |-> Zero64,
     args |-> <<arg0, Zero64, arg2, Zero64, Zero64, Zero64>>]

ArgPairs == { <<Small(1), Small(10)>>, <<Small(1), Small(14)>>,
              <<Small(0), Small(14)>>, <<Wide(1), Wide(14)>> }
OTHER_ARCH == <<16384, 3>>
SeccompDatas ==
    { SeccompData(<<0, n>>, AUDIT_ARCH_X86_64, a[1], a[2]) : n \in {1, 9}, a \in ArgPairs }
      \cup { SeccompData(<<0, 1>>, OTHER_ARCH, Small(1), Small(14)) }

----------------------------------------------------------------------------
(* Initial values of the parts a specification does not use                 *)

NoData == SeccompData(<<0, 0>>, AUDIT_ARCH_X86_64, Zero64, Zero64)

KernelIdle ==
    /\ filters = <<>>
    /\ data = NoData
    /\ pc = 0
    /\ A = <<0, 0>>
    /\ ret = NoRet

SeccompIdle ==
    /\ rules = NoRules
    /\ default_action = Action("Trap", <<0, 0>>)
    /\ api_result = ApiResult("none", TRUE, NoErr, <<>>)
    /\ no_new_privs = FALSE

JailerIdle ==
    /\ fds = <<>>
    /\ fd_limit = 0
    /\ jpc = "idle"
    /\ jres = <<"none", 0>>
    /\ jfs = {}
    /\ jlog = <<>>

----------------------------------------------------------------------------
(* SpecFilter: a filter level is installed and the kernel runs the filter   *)

\* the process may come with the no-new-privileges bit already set
InitFilter ==
    /\ build \in {"release"}
    /\ phase = "built"
    /\ inp \in { [level |-> l] : l \in FilterLevels }
    /\ rules = NoRules
    /\ default_action = Action("Trap", <<0, 0>>)
    /\ api_result = ApiResult("none", TRUE, NoErr, <<>>)
    /\ no_new_privs \in BOOLEAN
    /\ KernelIdle
    /\ JailerIdle

InstallLevel == \E order \in SortedOrders(inp.level.rules) : SetupSeccomp(inp.level, order)

KernelRuns == \E d \in SeccompDatas : SyscallEnter(d)

NextFilter ==
    \/ InstallLevel
    \/ KernelRuns
    \/ FilterStep

SpecFilter == InitFilter /\ [][NextFilter]_vars

----------------------------------------------------------------------------
(* Spec: a context is built by new, grown by add_rules and handed to        *)
(* setup_seccomp.  The maps given to new and the vectors given to add_rules *)
(* may hold empty chains.                                                   *)

MaxChainLen == 3

RuleVectors == { <<>>, <<RuleAllow>>, <<RuleEq>>, <<RuleEq, RuleAllow>> }
ApiSyscalls == {SYS_1, SYS_9}
OptPriorities == {None, Some(0), Some(1)}

NewMaps ==
    UNION { [D -> [priority : Priorities, chain : RuleVectors]] : D \in SUBSET ApiSyscalls }

Init ==
    /\ build \in {"release"}
    /\ phase = "start"
    /\ inp = [call |-> "none"]
    /\ SeccompIdle
    /\ KernelIdle
    /\ JailerIdle

NewContext == \E map \in NewMaps, action \in DefaultActions : New(map, action)

\* chains are kept within MaxChainLen rules
AddSomeRules ==
    \E syscall_number \in ApiSyscalls, default_priority \in OptPriorities,
       new_rules \in RuleVectors :
        /\ \A n \in DOMAIN rules : Len(rules[n].chain) + Len(new_rules) <= MaxChainLen
        /\ AddRules(syscall_number, default_priority, new_rules)

\* setup_seccomp(SeccompLevel::Advanced(context))
InstallContext ==
    /\ inp' = [call |-> "setup_seccomp"]
    /\ \E order \in SortedOrders(rules) :
          /\ phase = "built"
          /\ LoadFilters(setup_filters(AdvancedLevel(rules, default_action), order), order)
    /\ UNCHANGED <<build, rules, default_action, data, pc, A, ret, jailerVars>>

Next ==
    \/ NewContext
    \/ AddSomeRules
    \/ InstallContext

Spec == Init /\ [][Next]_vars

----------------------------------------------------------------------------
(* SpecCond: one condition is built, compiled for an offset, and the kernel *)
(* runs the fragment alone on a seccomp_data.  inp is [arg_number,          *)
(* operator, mask, value, offset, arg]; the fragment has no return, so the  *)
(* run ends "exited" with pc at the instruction control has reached.        *)

Max64 == <<65535, 65535, 65535, 65535>>
CondValues == { Small(5), Wide(5), Zero64, Max64 }
CondMasks == { <<0, 1, 0, 3>>, Zero64, Max64 }
ArgValues ==
    { Small(4), Small(5), Small(6), Wide(4), Wide(5), Wide(6), <<0, 2, 0, 5>>,
      <<0, 0, 1, 5>>, <<32768, 0, 0, 5>>, Zero64, Max64 }
ArgNumbers == {0, ARG_NUMBER_MAX, ARG_NUMBER_MAX + 1}
Offsets == {0, 1, 7, 248, 252, 253, 254, 255}

CondInputs ==
    { [arg_number |-> n, operator |-> op, mask |-> m, value |-> v, offset |-> o, arg |-> a] :
        n \in ArgNumbers, op \in CmpOps \ {"MaskedEq"}, m \in {Zero64},
        v \in CondValues, o \in Offsets, a \in ArgValues }
      \cup
    { [arg_number |-> n, operator |-> "MaskedEq", mask |-> m, value |-> v, offset |-> o,
       arg |-> a] :
        n \in {0, ARG_NUMBER_MAX}, m \in CondMasks, v \in CondValues, o \in Offsets,
        a \in ArgValues }
      \cup
    \* every u8 argument number, with every operator
    { [arg_number |-> n, operator |-> op, mask |-> Max64, value |-> Small(5), offset |-> 1,
       arg |-> a] :
        n \in 0..U8_MAX, op \in CmpOps, a \in {Small(4), Small(5)} }

\* a seccomp_data on x86_64 whose argument n is a, the others 0
DataWithArg(n, a) ==
    [nr |-> <<0, 1>>, arch |-> AUDIT_ARCH_X86_64, instruction_pointer |-> Zero64,
     args |-> [i \in 1..6 |-> IF i = n + 1 THEN a ELSE Zero64]]

InitCond ==
    /\ build \in {"debug", "release"}
    /\ phase = "cond"
    /\ inp \in CondInputs
    /\ SeccompIdle
    /\ KernelIdle
    /\ JailerIdle

\* SeccompCondition::new(..)?.into_bpf(offset), then the fragment is run
RunFragment(c, fragment) ==
    IF build = "debug" /\ condition_overflows(c, inp.offset)
    THEN /\ phase' = "panicked"
         /\ UNCHANGED kernelVars
    ELSE /\ phase' = "running"
         /\ filters' = fragment
         /\ data' = DataWithArg(c.arg_number, inp.arg)
         /\ pc' = 0
         /\ A' = <<0, 0>>
         /\ ret' = NoRet

CompileCondition ==
    /\ phase = "cond"
    /\ LET r == SeccompConditionNew(inp.arg_number, inp.operator, inp.mask, inp.value)
       IN  IF r.ok
           THEN /\ RunFragment(r.cond, condition_into_bpf(r.cond, inp.offset))
                /\ api_result' = ApiResult("new", TRUE, NoErr, <<>>)
           ELSE /\ phase' = "cond_rejected"
                /\ api_result' = ApiResult("new", FALSE, <<r.err, 0>>, <<>>)
                /\ UNCHANGED kernelVars
    /\ UNCHANGED <<build, inp, rules, default_action, no_new_privs, jailerVars>>

NextCond ==
    \/ CompileCondition
    \/ FilterStep

SpecCond == InitCond /\ [][NextCond]_vars

----------------------------------------------------------------------------
(* SpecCompile: policies whose programs reach the BPF_MAX_LEN ceiling are   *)
(* compiled, by SeccompFilterContext::into_bpf alone and by setup_seccomp.  *)
(* The chain of syscall 9 is made of big rules, condition-free rules and    *)
(* one-condition rules; syscall 1 may have a chain before or after it.      *)

MaxBigConds == 89
MaxBigRules == 10
MaxAllowRules == 4
MaxEqRules == 2

\* MaxBigConds conditions, cycling through Le, Ne, Gt, Eq and the arguments
BigConds ==
    [i \in 1..MaxBigConds |->
        Cond(i % (ARG_NUMBER_MAX + 1),
             CASE i % 4 = 1 -> "Le" [] i % 4 = 2 -> "Ne" [] i % 4 = 3 -> "Gt" [] OTHER -> "Eq",
             Zero64, Small(i))]

RuleBig == SeccompRuleNew(BigConds, Action("Log", <<0, 0>>))

BigChain(nBig, nAllow, nEq) ==
    Repeat(RuleBig, nBig) \o Repeat(RuleEq, nEq) \o Repeat(RuleAllow, nAllow)

\* second: "none", or where the chain of syscall 1 comes: "first" or "last"
BigPolicy(chain, second) ==
    LET D == (IF Len(chain) > 0 THEN {SYS_9} ELSE {})
               \cup (IF second # "none" THEN {SYS_1} ELSE {})
    IN  [n \in D |->
            IF n = SYS_9
            THEN [priority |-> IF second = "last" THEN 1 ELSE 0, chain |-> chain]
            ELSE [priority |-> IF second = "first" THEN 1 ELSE 0, chain |-> <<RuleEq>>]]

BigLevels ==
    { AdvancedLevel(BigPolicy(BigChain(nBig, nAllow, nEq), second), Action("Trap", <<0, 0>>)) :
        nBig \in {0, MaxBigRules}, nAllow \in 0..MaxAllowRules, nEq \in 0..MaxEqRules,
        second \in {"none", "first", "last"} }
      \cup { BasicLevel(l) : l \in BasicLists }

InitCompile ==
    /\ build \in {"release"}
    /\ phase = "built"
    /\ inp \in { [level |-> l] : l \in BigLevels }
    /\ SeccompIdle
    /\ KernelIdle
    /\ JailerIdle

\* the result of context.into_bpf() is kept in filters and api_result
KeepProgram(r, order) ==
    /\ filters' = r.prog
    /\ phase' = IF r.ok THEN "compiled" ELSE "compile_failed"
    /\ api_result' = [call |-> "into_bpf", ok |-> r.ok,
                      err |-> IF r.ok THEN NoErr ELSE <<r.err, 0>>,
                      prctl |-> <<>>, order |-> order, starts |-> r.starts]

\* SeccompFilterContext::into_bpf of the level's context
IntoBpf(order) ==
    /\ phase = "built"
    /\ inp.level.kind = "Advanced"
    /\ KeepProgram(context_into_bpf(inp.level.rules, inp.level.default_action, order), order)
    /\ UNCHANGED <<build, inp, rules, default_action, no_new_privs, data, pc, A, ret,
                   jailerVars>>

CompileContext == \E order \in SortedOrders(inp.level.rules) : IntoBpf(order)

NextCompile ==
    \/ CompileContext
    \/ InstallLevel

SpecCompile == InitCompile /\ [][NextCompile]_vars

----------------------------------------------------------------------------
(* What a policy means, stated on the policy itself: unsigned 64-bit        *)
(* comparisons, all predicates of a rule, the first matching rule of the    *)
(* chain registered for the system call number                              *)

U64Lt(x, y) ==
    \E i \in 1..4 : x[i] < y[i] /\ \A j \in 1..(i - 1) : x[j] = y[j]

CondHolds(c, args) ==
    LET a == args[c.arg_number + 1]
    IN  CASE c.operator = "Eq" -> a = c.value
          [] c.operator = "Ne" -> a # c.value
          [] c.operator = "Gt" -> U64Lt(c.value, a)
          [] c.operator = "Ge" -> ~U64Lt(a, c.value)
          [] c.operator = "Lt" -> U64Lt(a, c.value)
          [] c.operator = "Le" -> ~U64Lt(c.value, a)
          [] c.operator = "MaskedEq" -> U64And(a, c.mask) = U64And(c.value, c.mask)

RuleMatches(rule, args) ==
    \A i \in 1..Len(rule.conditions) : CondHolds(rule.conditions[i], args)

\* the action code of the first matching rule of a chain, else the default
ChainVerdict(chain, args, default_code) ==
    IF \E i \in 1..Len(chain) : RuleMatches(chain[i], args)
    THEN LET first == CHOOSE i \in 1..Len(chain) :
                          /\ RuleMatches(chain[i], args)
                          /\ \A j \in 1..(i - 1) : ~RuleMatches(chain[j], args)
         IN  ActionToU32(chain[first].action)
    ELSE default_code

\* seccomp_data.nr is a C int: the i64 syscall number it stands for
NrAsI64(nr) ==
    IF nr[1] >= 32768 THEN <<65535, 65535, nr[1], nr[2]>> ELSE <<0, 0, nr[1], nr[2]>>

PolicyVerdict(map, action, d) ==
    IF NrAsI64(d.nr) \in DOMAIN map
    THEN ChainVerdict(map[NrAsI64(d.nr)].chain, d.args, ActionToU32(action))
    ELSE ActionToU32(action)

\* C1: on the x86_64 architecture the program emitted for an Advanced level
\* returns the action of the first rule, in chain order, of the chain
\* registered for data.nr whose predicates all hold on data.args, and the
\* policy's default action when nr has no chain or no rule of it matches.
C1_FirstMatchingRuleWins ==
    (phase = "returned" /\ inp.level.kind = "Advanced" /\ data.arch = AUDIT_ARCH_X86_64)
        => ret = PolicyVerdict(inp.level.rules, inp.level.default_action, data)

\* the filter is in the kernel: installed, running on a system call, or done
InKernel == phase \in {"installed", "running", "returned", "exited"}
OnSyscall == phase \in {"running", "returned", "exited"}

\* C6: every installed program (Basic and Advanced) begins with the three
\* prologue instructions [load word 4; jeq 0xC000003E jt=1 jf=0; ret KILL];
\* on another architecture it returns KILL before the syscall number is
\* examined, on x86_64 control continues at the fourth instruction.
C6_ArchitecturePrologue ==
    InKernel =>
        /\ Len(filters) >= 3
        /\ filters[1] = [code |-> 32, jt |-> 0, jf |-> 0, k |-> <<0, 4>>]
        /\ filters[2] = [code |-> 21, jt |-> 1, jf |-> 0, k |-> <<49152, 62>>]
        /\ filters[3] = [code |-> 6, jt |-> 0, jf |-> 0, k |-> <<0, 0>>]
        /\ (OnSyscall /\ data.arch # <<49152, 62>>) =>
                /\ pc <= 2
                /\ phase # "exited"
                /\ phase = "returned" => (pc = 2 /\ ret = <<0, 0>>)
        /\ (OnSyscall /\ data.arch = <<49152, 62>>) => pc # 2

\* a run on a foreign architecture was killed by the prologue
C6_Witness_KilledOnOtherArch ==
    /\ phase = "returned"
    /\ data.arch # <<49152, 62>>
    /\ ret = <<0, 0>>
    /\ inp.level.kind = "Basic"

\* C10 (layout): the program of a policy with default action D ends with
\* `return D`, every chain's block starts with its number guard and ends
\* with `return D` right before the next block's guard.
\* C10 (effect): once a guard has matched the syscall number, control never
\* leaves that chain's block, and the run returns D when no rule of the
\* chain matches.
ChainBlockEnd(j) ==
    IF j < Len(api_result.starts) THEN api_result.starts[j + 1] ELSE Len(filters) - 1

GuardMatches(j) == LowU32(api_result.order[j]) = data.nr

C10_DefaultActionSandwich ==
    (InKernel /\ inp.level.kind = "Advanced") =>
        LET D == [code |-> 6, jt |-> 0, jf |-> 0, k |-> ActionToU32(inp.level.default_action)]
            order == api_result.order
            n == Len(order)
        IN  /\ filters[Len(filters)] = D
            /\ Len(api_result.starts) = n
            /\ \A j \in 1..n :
                  /\ filters[api_result.starts[j] + 1] =
                        [code |-> 21, jt |-> 0, jf |-> 1, k |-> LowU32(order[j])]
                  /\ filters[ChainBlockEnd(j)] = D
            /\ (OnSyscall /\ data.arch = <<49152, 62>>) =>
                  \A j \in 1..n :
                      (GuardMatches(j) /\ \A i \in 1..(j - 1) : ~GuardMatches(i)) =>
                          /\ pc < ChainBlockEnd(j)
                          /\ (phase = "returned"
                                /\ \A r \in 1..Len(inp.level.rules[order[j]].chain) :
                                      ~RuleMatches(inp.level.rules[order[j]].chain[r], data.args))
                             => (ret = D.k /\ pc = ChainBlockEnd(j) - 1)

\* a syscall matched the first of two chains, none of its rules, and got D
C10_Witness_DefaultInsideChain ==
    /\ phase = "returned"
    /\ inp.level.kind = "Advanced"
    /\ Len(api_result.order) = 2
    /\ GuardMatches(1)
    /\ pc = ChainBlockEnd(1) - 1
    /\ ret = ActionToU32(inp.level.default_action)

\* the condition of inp and the argument vector it is run on
InpCond == Cond(inp.arg_number, inp.operator, inp.mask, inp.value)
InpHolds == CondHolds(InpCond, DataWithArg(inp.arg_number, inp.arg).args)

\* where the run of the fragment must end: right after the fragment when the
\* predicate holds, inp.offset instructions further when it does not
FragmentExit == IF InpHolds THEN Len(filters) ELSE Len(filters) + inp.offset

\* the largest jump operand the fragment derives from the offset: O + 2 in
\* Eq, Ge, Gt; O + 3 in Le, Lt, MaskedEq; O in Ne
LargestOperand ==
    CASE inp.operator \in {"Eq", "Ge", "Gt"} -> inp.offset + 2
      [] inp.operator \in {"Le", "Lt", "MaskedEq"} -> inp.offset + 3
      [] inp.operator = "Ne" -> inp.offset

\* C2 as stated: for each operator, constant, argument value and every
\* offset O, the run of the fragment of into_bpf(O) ends right after the
\* fragment when the predicate holds and O instructions past its end when
\* it does not.
C2_ExitForEveryOffset ==
    (inp.arg_number <= 5) =>
        /\ phase # "panicked"
        /\ phase = "exited" => pc = FragmentExit

\* C2 as it holds: the same, for every offset O whose largest derived jump
\* operand is at most 255 (all offsets up to 252, which includes every
\* offset append_condition passes): into_bpf(O) yields a fragment in every
\* build and its run ends at FragmentExit, from the upper-half and from the
\* lower-half failure exit alike.
C2_ExitWhenOperandsFit ==
    (inp.arg_number <= 5 /\ LargestOperand <= 255) =>
        /\ phase # "panicked"
        /\ phase = "exited" => pc = FragmentExit

\* a failing Le predicate left through the upper-half exit with offset 248
C2_Witness_UpperHalfExit ==
    /\ phase = "exited"
    /\ inp.operator = "Le"
    /\ inp.offset = 248
    /\ inp.value = Small(5)
    /\ inp.arg = Wide(4)
    /\ pc = 5 + 248

\* the program reached the kernel: setup_seccomp made its PR_SET_SECCOMP call
HandedToKernel == api_result.call = "setup_seccomp" /\ Len(api_result.prctl) = 2

\* C3 as stated: for every policy that compiles, the program handed to the
\* kernel (prologue, syscall-number load, chains, final default action) has
\* at most 4096 instructions.
C3_HandedProgramWithinCeiling ==
    (HandedToKernel /\ inp.level.kind = "Advanced") => Len(filters) <= 4096

\* the number of instructions a policy expands to, counted on the policy:
\* a condition is 4 (Eq, Ne), 5 (Ge, Gt, Le, Lt) or 6 (MaskedEq) long, three
\* helper jumps come before a condition met with an offset above 248, a rule
\* adds two entry jumps and its return, a chain its guard and the default
\* return, the program the load of the number and the final default return
CondLen(c) ==
    CASE c.operator \in {"Eq", "Ne"} -> 4
      [] c.operator \in {"Ge", "Gt", "Le", "Lt"} -> 5
      [] c.operator = "MaskedEq" -> 6

\* [len, offset] after one more condition of length n
AddCondLen(st, n) ==
    IF st.offset > 248
    THEN [len |-> st.len + 3 + n, offset |-> 1 + n]
    ELSE [len |-> st.len + n, offset |-> st.offset + n]

RECURSIVE CondsLen(_, _, _, _)
CondsLen(st, conditions, lo, hi) ==
    IF st.offset < 0 \/ lo > hi THEN st
    ELSE IF lo = hi THEN AddCondLen(st, CondLen(conditions[lo]))
    ELSE CondsLen(CondsLen(st, conditions, lo, (lo + hi) \div 2),
                  conditions, (lo + hi) \div 2 + 1, hi)

RuleLen(rule) ==
    3 + CondsLen([len |-> 0, offset |-> 1], rule.conditions, 1, Len(rule.conditions)).len

RECURSIVE ChainLen(_, _, _)
ChainLen(chain, lo, hi) ==
    IF lo > hi THEN 0
    ELSE IF lo = hi THEN RuleLen(chain[lo])
    ELSE ChainLen(chain, lo, (lo + hi) \div 2) + ChainLen(chain, (lo + hi) \div 2 + 1, hi)

RECURSIVE ChainsLen(_, _)
ChainsLen(map, D) ==
    IF D = {} THEN 0
    ELSE LET n == CHOOSE n \in D : TRUE
         IN  2 + ChainLen(map[n].chain, 1, Len(map[n].chain)) + ChainsLen(map, D \ {n})

ExpansionLen(map) == 2 + ChainsLen(map, DOMAIN map)

\* C4: into_bpf fails, with ContextTooLarge, exactly for the policies whose
\* expansion exceeds 4096 instructions; when it succeeds the program is the
\* whole expansion.
C4_TooLargeIffOverCeiling ==
    (api_result.call = "into_bpf") =>
        /\ api_result.ok <=> ExpansionLen(inp.level.rules) <= 4096
        /\ api_result.ok => Len(filters) = ExpansionLen(inp.level.rules)
        /\ ~api_result.ok => api_result.err = <<"ContextTooLarge", 0>>

\* into_bpf refused a policy that expands to 4097 instructions
C4_Witness_RefusedAt4097 ==
    /\ api_result.call = "into_bpf"
    /\ ~api_result.ok
    /\ ExpansionLen(inp.level.rules) = 4097

\* a program was emitted: by into_bpf, or by setup_seccomp for the kernel
Emitted == phase = "compiled" \/ HandedToKernel

\* instruction i (from 0) of prog keeps control inside prog
StaysInside(prog, i) ==
    LET ins == prog[i + 1]
    IN  CASE ins.code = 6 -> TRUE
          [] ins.code = 5 ->
                ins.k[1] = 0 /\ ins.k[2] <= 255 /\ i + 1 + ins.k[2] < Len(prog)
          [] ins.code \in {21, 37, 53} ->
                /\ ins.jt \in 0..255 /\ i + 1 + ins.jt < Len(prog)
                /\ ins.jf \in 0..255 /\ i + 1 + ins.jf < Len(prog)
          [] ins.code \in {32, 84} -> i + 1 < Len(prog)
          [] OTHER -> FALSE

\* C5: in every emitted program each jump operand is at most 255 and each
\* jump target is an instruction of the program; every instruction other
\* than a return has its successors inside the program, so no path leaves
\* the program without a return.
C5_JumpsStayInside ==
    Emitted => \A i \in 0..(Len(filters) - 1) : StaysInside(filters, i)

\* a compiled program with the helper jumps of a long rule
C5_Witness_HelperJumps ==
    /\ phase = "compiled"
    /\ Len(filters) > 4000
    /\ \E i \in 1..Len(filters) : filters[i].code = 5 /\ filters[i].k[2] >= 250

\* every chain of a map has at least one rule
ChainsNonEmpty(map) == \A n \in DOMAIN map : Len(map[n].chain) > 0

EmptyRulesVector == <<"EmptyRulesVector", 0>>

\* a step of add_rules called with an empty vector
EmptyAddRulesStep == inp'.call = "add_rules" /\ Len(inp'.new_rules) = 0

\* C9: after any sequence of new and add_rules calls every stored chain is
\* non-empty; new fails with EmptyRulesVector exactly when a supplied chain
\* is empty; add_rules with an empty vector fails with EmptyRulesVector and
\* leaves the map as it was: no entry is created and no chain is altered.
C9_ChainsNeverEmpty ==
    /\ [](ChainsNonEmpty(rules))
    /\ []((inp.call = "new") =>
            /\ api_result.ok <=> ChainsNonEmpty(inp.rules)
            /\ api_result.ok => rules = inp.rules
            /\ ~api_result.ok => (api_result.err = EmptyRulesVector /\ rules = NoRules))
    /\ [][EmptyAddRulesStep =>
            /\ ~api_result'.ok
            /\ api_result'.err = EmptyRulesVector
            /\ rules' = rules]_vars

\* add_rules was refused an empty vector for a syscall number without an
\* entry, in a context that holds a chain for another one
C9_Witness_EmptyVectorRefused ==
    /\ inp.call = "add_rules"
    /\ Len(inp.new_rules) = 0
    /\ ~api_result.ok
    /\ inp.syscall_number \notin DOMAIN rules
    /\ DOMAIN rules # {}

----------------------------------------------------------------------------
(* SpecJailer: run() of the jailer, from descriptor sanitation to the call  *)
(* of env.run(), over the descriptor table of the process.                  *)

KVM_FD == 3
LISTENER_FD == 4
FD_CLOEXEC == 1
\* a bit of the descriptor flag word other than FD_CLOEXEC
FD_OTHER == 2
\* first descriptor after IN, OUT and ERR
FIRST_INHERITED == 3
\* RLIMIT_NOFILE of a default login
OPEN_MAX == 1024

MaxFd == 6
MaxEnvFds == 1

\* an open descriptor: the file behind it, its access mode, its descriptor
\* flags now and when it was opened
Descriptor(file, oflag, fd_flags, listening) ==
    [file |-> file, oflag |-> oflag, fd_flags |-> fd_flags,
     open_flags |-> fd_flags, listening |-> listening]

Inherited == Descriptor("inherited", "O_RDWR", 0, FALSE)

\* descriptor numbers a run can hand out
FdSpace == 0 .. (MaxFd + MaxEnvFds + 2)

\* the lowest descriptor number not in use
LowestFree(table) == CHOOSE n \in FdSpace \ DOMAIN table :
                        \A m \in FdSpace \ DOMAIN table : n <= m

\* the kernel gives a new descriptor the lowest free number, and refuses
\* with EMFILE (-1) when that number is not below the limit
Open(table, limit, descriptor) ==
    LET n == LowestFree(table)
    IN  IF n >= limit
        THEN [ret |-> -1, fds |-> table]
        ELSE [ret |-> n,
              fds |-> [m \in DOMAIN table \cup {n} |->
                          IF m = n THEN descriptor ELSE table[m]]]

Close(table, n) == [m \in DOMAIN table \ {n} |-> table[m]]

\* variant: sanitation that starts one descriptor late
sanitize_process_Late(table, fd_size) ==
    [m \in {n \in DOMAIN table : ~(FIRST_INHERITED + 1 <= n /\ n < fd_size)} |-> table[m]]

\* sanitize_process: for i in 3..fd_size { close(i) }
sanitize_process(table, fd_size) ==
    [m \in {n \in DOMAIN table : ~(FIRST_INHERITED <= n /\ n < fd_size)} |-> table[m]]

JErr(kind, value) == [ok |-> FALSE, err |-> <<kind, value>>]
JOk == [ok |-> TRUE, err |-> <<"none", 0>>]

\* variant: open_dev_kvm that accepts any descriptor number
open_dev_kvm_AnyFd(r) ==
    IF r < 0 THEN JErr("OpenDevKvm", 0)
    ELSE JOk

\* variant: open_dev_kvm that reports an unexpected number as a failed open
open_dev_kvm_OneKind(r) ==
    IF r < 0 THEN JErr("OpenDevKvm", 0)
    ELSE IF r # KVM_FD THEN JErr("OpenDevKvm", r)
    ELSE JOk

\* open_dev_kvm, on the value open("/dev/kvm", O_RDWR) returned
open_dev_kvm(r) ==
    IF r < 0 THEN JErr("OpenDevKvm", 0)
    ELSE IF r # KVM_FD THEN JErr("UnexpectedKvmFd", r)
    ELSE JOk

\* fd_flags &= !libc::FD_CLOEXEC
unset_cloexec(fd_flags) == And16(fd_flags, LimbMod - 1 - FD_CLOEXEC, 16)

\* descriptors Env::new may leave open
RECURSIVE OpenMany(_, _, _)
OpenMany(table, limit, n) ==
    IF n = 0 THEN table
    ELSE OpenMany(Open(table, limit, Descriptor("Env", "O_RDONLY", FD_CLOEXEC, FALSE)).fds,
                  limit, n - 1)

\* the flag word of a socket Rust opens: FD_CLOEXEC and whatever else the
\* kernel keeps there
ListenerFlags == {FD_CLOEXEC, FD_CLOEXEC + FD_OTHER}

\* sysconf(_SC_OPEN_MAX): a limit that leaves no room for the listener, one
\* set below descriptors the process already holds, and the default
FdLimits == {LISTENER_FD, LISTENER_FD + 1, OPEN_MAX}

StartTables == UNION { [D -> {Inherited}] : D \in SUBSET (0 .. MaxFd) }

\* env.chroot_dir() ends in <id>/root, so parent() is Some
ChrootHasParent == {TRUE}

InitJailer ==
    /\ build \in {"release"}
    /\ phase = "jailer"
    /\ inp = [call |-> "none"]
    /\ SeccompIdle
    /\ KernelIdle
    /\ fds \in StartTables
    /\ fd_limit \in FdLimits
    /\ jpc = "sanitize_process"
    /\ jres = <<"none", 0>>
    /\ jfs = {}
    /\ jlog = <<>>

\* run() returns Err(e)
Fail(e) ==
    /\ jpc' = "done"
    /\ jres' = e

NotJailer == <<build, phase, inp, seccompVars, kernelVars>>

\* sanitize_process();
SanitizeProcess ==
    /\ jpc = "sanitize_process"
    /\ fds' = sanitize_process(fds, fd_limit)
    /\ jlog' = Append(jlog, "sanitize_process")
    /\ jpc' = "open_dev_kvm"
    /\ UNCHANGED <<fd_limit, jres, jfs, NotJailer>>

\* open_dev_kvm()?; the open may fail for want of the device
OpenKvmStep(o) ==
    /\ fds' = o.fds
    /\ IF open_dev_kvm(o.ret).ok
       THEN jpc' = "Env::new" /\ jres' = jres
       ELSE Fail(open_dev_kvm(o.ret).err)

OpenDevKvm ==
    /\ jpc = "open_dev_kvm"
    /\ \E present \in BOOLEAN :
          OpenKvmStep(IF present
                      THEN Open(fds, fd_limit, Descriptor("/dev/kvm", "O_RDWR", 0, FALSE))
                      ELSE [ret |-> -1, fds |-> fds])
    /\ jlog' = Append(jlog, "open_dev_kvm")
    /\ UNCHANGED <<fd_limit, jfs, NotJailer>>

\* let env = Env::new(args, start_time_us, start_time_cpu_us)?;
EnvNew ==
    /\ jpc = "Env::new"
    /\ \E valid \in BOOLEAN, left_open \in 0 .. MaxEnvFds :
          /\ fds' = OpenMany(fds, fd_limit, left_open)
          /\ IF valid
             THEN jpc' = "create_dir_all" /\ jres' = jres
             ELSE Fail(<<"Env::new", 0>>)
    /\ jlog' = Append(jlog, "Env::new")
    /\ UNCHANGED <<fd_limit, jfs, NotJailer>>

\* fs::create_dir_all(env.chroot_dir())
CreateDirAll ==
    /\ jpc = "create_dir_all"
    /\ \E created \in BOOLEAN :
          IF created
          THEN jfs' = jfs \cup {"chroot_dir"} /\ jpc' = "bind" /\ jres' = jres
          ELSE jfs' = jfs /\ Fail(<<"CreateDir", 0>>)
    /\ jlog' = Append(jlog, "create_dir_all")
    /\ UNCHANGED <<fds, fd_limit, NotJailer>>

\* UnixListener::bind(<chroot_dir>/../api.socket) and the test of its number;
\* a listener run() returns without is dropped, which closes it
BindStep(has_parent, s, bound) ==
    IF ~has_parent
    THEN /\ Fail(<<"MissingParent", 0>>)
         /\ UNCHANGED <<fds, jfs>>
    ELSE IF s.ret < 0 \/ ~bound \/ "chroot_dir" \notin jfs
    THEN /\ Fail(<<"UnixListener", 0>>)
         /\ UNCHANGED <<fds, jfs>>
    ELSE IF s.ret # LISTENER_FD
    THEN /\ Fail(<<"UnexpectedListenerFd", s.ret>>)
         /\ fds' = fds
         /\ jfs' = jfs \cup {"api.socket"}
    ELSE /\ jpc' = "fcntl"
         /\ jres' = jres
         /\ fds' = s.fds
         /\ jfs' = jfs \cup {"api.socket"}

Bind ==
    /\ jpc = "bind"
    /\ \E has_parent \in ChrootHasParent, fd_flags \in ListenerFlags, bound \in BOOLEAN :
          BindStep(has_parent,
                   Open(fds, fd_limit, Descriptor("api.socket", "O_RDWR", fd_flags, TRUE)),
                   bound)
    /\ jlog' = Append(jlog, "bind")
    /\ UNCHANGED <<fd_limit, NotJailer>>

\* fcntl(listener_fd, F_GETFD), fd_flags &= !FD_CLOEXEC, fcntl(listener_fd, F_SETFD)
ClearCloexec ==
    /\ jpc = "fcntl"
    /\ \E got \in BOOLEAN, set \in BOOLEAN :
          IF ~got
          THEN Fail(<<"GetOldFdFlags", 0>>) /\ fds' = Close(fds, LISTENER_FD)
          ELSE IF ~set
          THEN Fail(<<"UnsetCloexec", 0>>) /\ fds' = Close(fds, LISTENER_FD)
          ELSE /\ fds' = [fds EXCEPT ![LISTENER_FD].fd_flags = unset_cloexec(@)]
               /\ jpc' = "env.run"
               /\ jres' = jres
    /\ jlog' = Append(jlog, "fcntl")
    /\ UNCHANGED <<fd_limit, jfs, NotJailer>>

\* env.run()
EnvRun ==
    /\ jpc = "env.run"
    /\ jlog' = Append(jlog, "env.run")
    /\ jpc' = "done"
    /\ jres' = <<"env.run", 0>>
    /\ UNCHANGED <<fds, fd_limit, jfs, NotJailer>>

NextJailer ==
    \/ SanitizeProcess
    \/ OpenDevKvm
    \/ EnvNew
    \/ CreateDirAll
    \/ Bind
    \/ ClearCloexec
    \/ EnvRun

SpecJailer == InitJailer /\ [][NextJailer]_vars

\* run() is at, or has made, the call of env.run()
Activated == jpc = "env.run" \/ jres[1] = "env.run"

\* descriptor n is open on the named file
OpenOn(n, file) == n \in DOMAIN fds /\ fds[n].file = file

\* C7: whenever run() reaches env.run(), descriptor 3 is /dev/kvm opened
\* read-write and descriptor 4 is the listening socket, with close-on-exec
\* cleared and the rest of its flag word as it was opened, whatever the
\* initial descriptor table and whatever Env::new left open.
C7_FixedDescriptorsAtActivation ==
    Activated =>
        /\ OpenOn(KVM_FD, "/dev/kvm")
        /\ fds[KVM_FD].oflag = "O_RDWR"
        /\ OpenOn(LISTENER_FD, "api.socket")
        /\ fds[LISTENER_FD].listening
        /\ fds[LISTENER_FD].fd_flags % (2 * FD_CLOEXEC) < FD_CLOEXEC
        /\ fds[LISTENER_FD].fd_flags = fds[LISTENER_FD].open_flags - FD_CLOEXEC

\* activation was reached with an inherited descriptor still open and a
\* listener whose flag word held another bit
C7_Witness_ActivatedAmongInherited ==
    /\ jres[1] = "env.run"
    /\ \E n \in DOMAIN fds : fds[n].file = "inherited" /\ n > LISTENER_FD
    /\ fds[LISTENER_FD].open_flags = FD_CLOEXEC + FD_OTHER

\* every b in the log of steps has an a before it
Precedes(a, b) ==
    \A j \in 1 .. Len(jlog) : jlog[j] = b => \E i \in 1 .. (j - 1) : jlog[i] = a

StepsInOrder ==
    /\ Precedes("sanitize_process", "open_dev_kvm")
    /\ Precedes("open_dev_kvm", "Env::new")
    /\ Precedes("open_dev_kvm", "bind")
    /\ Precedes("create_dir_all", "bind")
    /\ Precedes("fcntl", "env.run")
    /\ OpenOn(LISTENER_FD, "api.socket") => "chroot_dir" \in jfs
    /\ jpc = "env.run" => fds[LISTENER_FD].fd_flags % (2 * FD_CLOEXEC) < FD_CLOEXEC

\* sanitation is over and /dev/kvm not yet opened
Sanitized == jpc = "open_dev_kvm"

----------------------------------------------------------------------------
\* the block of the chain emitted j-th begins with the guard on its number
BlockOf(j) == filters[api_result.starts[j] + 1]

\* C11: for any two chains of a policy with priorities p1 > p2, the block of
\* the chain with p1 lies earlier in the installed program than the block of
\* the chain with p2, each block beginning with the guard on its own number.
C11_HigherPriorityEarlier ==
    (InKernel /\ inp.level.kind = "Advanced") =>
        LET map == inp.level.rules
            order == api_result.order
        IN  /\ Len(order) = Cardinality(DOMAIN map)
            /\ Len(api_result.starts) = Len(order)
            /\ { order[j] : j \in 1..Len(order) } = DOMAIN map
            /\ \A j \in 1..Len(order) :
                  BlockOf(j) = [code |-> 21, jt |-> 0, jf |-> 1, k |-> LowU32(order[j])]
            /\ \A j, k \in 1..Len(order) :
                  map[order[j]].priority > map[order[k]].priority =>
                      api_result.starts[j] < api_result.starts[k]

\* a policy of two chains was installed in which the chain of the larger
\* syscall number has the higher priority
C11_Witness_LargerNumberFirst ==
    /\ InKernel
    /\ inp.level.kind = "Advanced"
    /\ Len(api_result.order) = 2
    /\ api_result.order[1] = SYS_9
    /\ api_result.order[2] = SYS_1
    /\ inp.level.rules[SYS_9].priority > inp.level.rules[SYS_1].priority

----------------------------------------------------------------------------
\* setup_seccomp has returned
SetupReturned == api_result.call = "setup_seccomp"

\* the prctl calls setup_seccomp made, by option, in the order it made them
PrctlOptions == [i \in 1..Len(api_result.prctl) |-> api_result.prctl[i][1]]

\* C12: setup_seccomp sets the no-new-privileges bit before it installs the
\* filter; when setting the bit fails it returns Load(errno) with the errno
\* of that call and the filter-install call is never made; a filter is
\* installed only when the bit was set successfully.
C12_NoNewPrivsBeforeInstall ==
    SetupReturned =>
        /\ PrctlOptions \in { <<>>, <<"PR_SET_NO_NEW_PRIVS">>,
                              <<"PR_SET_NO_NEW_PRIVS", "PR_SET_SECCOMP">> }
        /\ Len(api_result.prctl) = 1 =>
              /\ api_result.prctl[1][2] # 0
              /\ ~api_result.ok
              /\ api_result.err = <<"Load", api_result.prctl[1][2]>>
              /\ phase = "setup_failed"
        /\ Len(api_result.prctl) = 2 =>
              /\ api_result.prctl[1][2] = 0
              /\ no_new_privs
        /\ phase \in {"installed", "running", "returned", "exited"} =>
              /\ Len(api_result.prctl) = 2
              /\ api_result.prctl[1] = <<"PR_SET_NO_NEW_PRIVS", 0>>
              /\ api_result.prctl[2] = <<"PR_SET_SECCOMP", 0>>
              /\ no_new_privs

\* the bit could not be set, with an errno other than the one setup_seccomp
\* itself uses for a context that does not compile
C12_Witness_BitRefused ==
    /\ SetupReturned
    /\ Len(api_result.prctl) = 1
    /\ api_result.err = <<"Load", 13>>
    /\ ~no_new_privs

----------------------------------------------------------------------------
\* the numbers of a Basic list
Listed(allowed_syscalls) == { allowed_syscalls[i] : i \in 1..Len(allowed_syscalls) }

\* the installed program has the shape the Basic level gives it
BasicShape(allowed_syscalls) ==
    /\ Len(filters) = 5 + 2 * Len(allowed_syscalls)
    /\ filters[1] = [code |-> 32, jt |-> 0, jf |-> 0, k |-> <<0, 4>>]
    /\ filters[2] = [code |-> 21, jt |-> 1, jf |-> 0, k |-> <<49152, 62>>]
    /\ filters[3] = [code |-> 6, jt |-> 0, jf |-> 0, k |-> <<0, 0>>]
    /\ filters[4] = [code |-> 32, jt |-> 0, jf |-> 0, k |-> <<0, 0>>]
    /\ \A i \in 1..Len(allowed_syscalls) :
          /\ filters[3 + 2 * i] =
                [code |-> 21, jt |-> 0, jf |-> 1, k |-> LowU32(allowed_syscalls[i])]
          /\ filters[4 + 2 * i] = [code |-> 6, jt |-> 0, jf |-> 0, k |-> <<32767, 0>>]
    /\ filters[Len(filters)] = [code |-> 6, jt |-> 0, jf |-> 0, k |-> <<3, 0>>]

\* C13 as stated: for Basic(list) the installed program is the prologue, one
\* load of the syscall number, one (jeq N, ret ALLOW) pair per listed number
\* in list order and a trailing ret TRAP, 5 + 2*|list| instructions; on
\* x86_64 it returns ALLOW exactly when the syscall number is in the list and
\* TRAP otherwise, whatever the arguments.
C13_BasicAllowsExactlyListed ==
    (InKernel /\ inp.level.kind = "Basic") =>
        /\ BasicShape(inp.level.allowed_syscalls)
        /\ phase # "exited"
        /\ (phase = "returned" /\ data.arch = <<49152, 62>>) =>
              ret = IF NrAsI64(data.nr) \in Listed(inp.level.allowed_syscalls)
                    THEN <<32767, 0>> ELSE <<3, 0>>

\* the same, for lists whose numbers all fit in 32 bits
C13_BasicAllowsListedInRange ==
    (\A n \in Listed(inp.level.allowed_syscalls) : n[1] = 0 /\ n[2] = 0)
        => C13_BasicAllowsExactlyListed

----------------------------------------------------------------------------
\* a step of setup_seccomp(SeccompLevel::None)
SetupNoneStep == phase = "built" /\ inp.level.kind = "None"

\* C14: setup_seccomp(SeccompLevel::None) returns success and is a no-op: it
\* makes no prctl call, leaves the no-new-privileges bit as it was and
\* installs no filter.
C14_NoneIsNoOp ==
    /\ [](inp.level.kind = "None" => ~InKernel)
    /\ [][SetupNoneStep =>
            /\ api_result'.call = "setup_seccomp"
            /\ api_result'.ok
            /\ api_result'.err = NoErr
            /\ api_result'.prctl = <<>>
            /\ no_new_privs' = no_new_privs
            /\ phase' = "disabled"]_vars

\* level None has returned in a process whose bit was already set
C14_Witness_NoneReturned ==
    /\ inp.level.kind = "None"
    /\ SetupReturned
    /\ api_result.ok
    /\ phase = "disabled"
    /\ no_new_privs

----------------------------------------------------------------------------
\* a condition was compiled and its fragment handed to the kernel
CondCompiled == phase \in {"running", "returned", "exited"} /\ api_result.call = "new"

\* the instruction loads a word that lies inside seccomp_data (64 bytes)
LoadsInsideData(ins) == ins.k[1] = 0 /\ ins.k[2] + 4 <= 64

\* C15: SeccompCondition::new fails with InvalidArgumentNumber for every
\* arg_number >= 6 and succeeds for every arg_number in 0..5, whatever the
\* operator and value; every compiled condition loads only the offsets
\* 16 + 8*N and 16 + 8*N + 4 with N <= 5, which lie inside seccomp_data and
\* fit in 8 bits.
C15_ArgumentNumberChecked ==
    /\ api_result.call = "new" =>
          /\ api_result.ok <=> inp.arg_number <= 5
          /\ ~api_result.ok =>
                (api_result.err = <<"InvalidArgumentNumber", 0>> /\ phase = "cond_rejected")
    /\ phase = "cond_rejected" => inp.arg_number >= 6
    /\ CondCompiled =>
          /\ inp.arg_number <= 5
          /\ 16 + 8 * inp.arg_number + 4 <= 255
          /\ \E i \in 1..Len(filters) : filters[i].code = 32
          /\ \A i \in 1..Len(filters) :
                filters[i].code = 32 =>
                    /\ filters[i].k \in { <<0, 16 + 8 * inp.arg_number>>,
                                          <<0, 16 + 8 * inp.arg_number + 4>> }
                    /\ LoadsInsideData(filters[i])

\* a condition on the last argument was compiled and run: it loads the last
\* word of seccomp_data
C15_Witness_LastArgument ==
    /\ CondCompiled
    /\ phase = "exited"
    /\ inp.arg_number = 5
    /\ \E i \in 1..Len(filters) : filters[i].code = 32 /\ filters[i].k = <<0, 60>>

\* new has refused the largest u8 argument number
C15_RefusedLargest ==
    /\ phase = "cond_rejected"
    /\ inp.arg_number = 255

----------------------------------------------------------------------------
(* SpecRule: one rule is compiled, condition by condition, and the kernel   *)
(* runs the compiled rule alone, entered at its first or at its second      *)
(* instruction.  api_result holds the state of the loop of into_bpf.        *)

MaxRuleConds == 3
\* the number of MaskedEq conditions of test_rule_many_conditions_bpf_output
TEST_MANY_CONDITIONS == 42

LowMask == <<0, 0, 0, 65535>>

\* the condition listed i-th in a short rule is on argument i - 1
ShortCond(i, op) == Cond(i - 1, op, IF op = "MaskedEq" THEN LowMask ELSE Zero64, Small(5))

ShortRules ==
    { SeccompRuleNew([i \in DOMAIN ops |-> ShortCond(i, ops[i])], Action("Errno", <<0, 1>>)) :
        ops \in UNION { [1..n -> {"Eq", "Le", "MaskedEq"}] : n \in 0..MaxRuleConds } }

\* argument vectors for the short rules: each tested argument 5 or 6, or all
\* of them 2^32 + 5
ShortArgs ==
    { [i \in 1..6 |-> IF i <= MaxRuleConds THEN v[i] ELSE Zero64] :
        v \in [1..MaxRuleConds -> {Small(5), Small(6)}] }
      \cup { [i \in 1..6 |-> Wide(5)] }

\* 42 MaskedEq conditions followed by one Eq condition
RuleManyConditions ==
    SeccompRuleNew(Repeat(Cond(0, "MaskedEq", Small(1), Small(1)), TEST_MANY_CONDITIONS)
                     \o <<Cond(2, "Eq", Zero64, Small(14))>>,
                   Action("Allow", <<0, 0>>))

\* twice as many MaskedEq conditions: a rule with two helper blocks
RuleTwoBlocks ==
    SeccompRuleNew(Repeat(Cond(0, "MaskedEq", Small(1), Small(1)), 2 * TEST_MANY_CONDITIONS)
                     \o <<Cond(2, "Eq", Zero64, Small(14))>>,
                   Action("Allow", <<0, 0>>))

LongRules == { RuleManyConditions, RuleLong, RuleBig, RuleTwoBlocks }

\* argument vectors for the long rules: all conditions of RuleManyConditions
\* hold, its Eq fails, its MaskedEq fail
LongArgs ==
    { <<Small(1), Zero64, Small(14), Zero64, Zero64, Zero64>>,
      <<Small(1), Zero64, Small(10), Zero64, Zero64, Zero64>>,
      <<Small(2), Zero64, Small(14), Zero64, Zero64, Zero64>> }

RuleInputs ==
    { [rule |-> r, args |-> a, entry |-> e] : r \in ShortRules, a \in ShortArgs, e \in {0, 1} }
      \cup
    { [rule |-> r, args |-> a, entry |-> e] : r \in LongRules, a \in LongArgs, e \in {0, 1} }

\* the loop of into_bpf: next is the index of the condition to append
RuleProgress(next, st) ==
    [call |-> "rule_into_bpf", ok |-> TRUE, err |-> NoErr, prctl |-> <<>>,
     next |-> next, st |-> st]

RuleData(args) ==
    [nr |-> <<0, 1>>, arch |-> AUDIT_ARCH_X86_64, instruction_pointer |-> Zero64,
     args |-> args]

InitRule ==
    /\ build \in {"debug", "release"}
    /\ phase = "rule"
    /\ inp \in RuleInputs
    /\ rules = NoRules
    /\ default_action = Action("Trap", <<0, 0>>)
    /\ api_result = RuleProgress(1, rule_start(inp.rule.action))
    /\ no_new_privs = FALSE
    /\ KernelIdle
    /\ JailerIdle

\* one round of self.conditions.into_iter().for_each(append_condition)
KeepProgress(st) ==
    /\ api_result' = RuleProgress(api_result.next + 1, st)
    /\ phase' = IF build = "debug" /\ st.overflow THEN "panicked" ELSE "rule"

AppendNext ==
    /\ phase = "rule"
    /\ api_result.next <= Len(inp.rule.conditions)
    /\ KeepProgress(append_condition(api_result.st, inp.rule.conditions[api_result.next]))
    /\ UNCHANGED <<build, inp, rules, default_action, no_new_privs, kernelVars, jailerVars>>

\* the end of into_bpf; the kernel then enters the rule at inp.entry
FinishRule ==
    /\ phase = "rule"
    /\ api_result.next > Len(inp.rule.conditions)
    /\ filters' = finish_rule(api_result.st)
    /\ phase' = "running"
    /\ data' = RuleData(inp.args)
    /\ pc' = inp.entry
    /\ A' = <<0, 0>>
    /\ ret' = NoRet
    /\ UNCHANGED <<build, inp, seccompVars, jailerVars>>

NextRule ==
    \/ AppendNext
    \/ FinishRule
    \/ FilterStep

SpecRule == InitRule /\ [][NextRule]_vars

\* the compiled rule is in the kernel
RuleCompiled == phase \in {"running", "returned", "exited"} /\ api_result.call = "rule_into_bpf"

\* the kernel is about to load an argument word
AtLoad == RuleCompiled /\ phase = "running" /\ filters[pc + 1].code = 32

\* no two conditions of the rule are on the same argument
DistinctArgs(rule) ==
    \A i, j \in 1..Len(rule.conditions) :
        i # j => rule.conditions[i].arg_number # rule.conditions[j].arg_number

\* the index in the rule's list of the condition whose argument is loaded
Testing ==
    CHOOSE i \in 1..Len(inp.rule.conditions) :
        inp.rule.conditions[i].arg_number = (filters[pc + 1].k[2] - 16) \div 8

\* the conditions listed at lo..hi hold on the arguments
HoldOn(lo, hi) == \A j \in lo..hi : CondHolds(inp.rule.conditions[j], data.args)

\* what the rule does on a match and on a failure: the terminal action is
\* returned exactly on a match, and every failure leaves at the instruction
\* that follows the rule
RuleVerdict ==
    (RuleCompiled /\ inp.entry = 0) =>
        /\ (phase = "running" /\ pc = 0) => filters = rule_into_bpf(inp.rule)
        /\ phase = "returned" =>
              (RuleMatches(inp.rule, data.args) /\ ret = ActionToU32(inp.rule.action))
        /\ phase = "exited" =>
              (~RuleMatches(inp.rule, data.args) /\ pc = Len(filters))

\* C16 as stated: a compiled rule entered at its first instruction tests its
\* predicates in list order, the first listed first; on a match the terminal
\* action is returned and every failure leaves at one and the same exit.
C16_PredicatesInListOrder ==
    /\ RuleVerdict
    /\ (AtLoad /\ inp.entry = 0 /\ DistinctArgs(inp.rule)) =>
          /\ HoldOn(1, Testing - 1)
          /\ pc = 2 => Testing = 1

\* C16: a compiled rule entered at its first instruction tests its
\* predicates in the reverse of list order, the last listed first; on a
\* match the terminal action is returned and every failure leaves at one and
\* the same exit, the instruction that follows the rule.
C16_PredicatesInReverseOrder ==
    /\ RuleVerdict
    /\ (AtLoad /\ inp.entry = 0 /\ DistinctArgs(inp.rule)) =>
          /\ HoldOn(Testing + 1, Len(inp.rule.conditions))
          /\ pc = 2 => Testing = Len(inp.rule.conditions)

\* the first listed predicate is under test, after two later ones held, and
\* it fails
C16_Witness_FirstListedTestedLast ==
    /\ AtLoad
    /\ inp.entry = 0
    /\ Len(inp.rule.conditions) = 3
    /\ Testing = 1
    /\ ~CondHolds(inp.rule.conditions[1], data.args)

\* a rule with helper jumps was left on a failure
C16_LongRuleLeft ==
    /\ RuleCompiled
    /\ inp.entry = 0
    /\ inp.rule = RuleManyConditions
    /\ phase = "exited"

----------------------------------------------------------------------------
\* the two entry jumps, and what lies at the target of the first: the first
\* instruction of a predicate, or the terminal action of a rule without any
EntryJumps ==
    /\ filters[1] = [code |-> 5, jt |-> 0, jf |-> 0, k |-> <<0, 1>>]
    /\ filters[2].code = 5
    /\ IF Len(inp.rule.conditions) = 0
       THEN /\ Len(filters) = 3
            /\ filters[3] = [code |-> 6, jt |-> 0, jf |-> 0, k |-> ActionToU32(inp.rule.action)]
       ELSE filters[3].code = 32
    /\ inp.entry = 0 => pc # 1
    /\ (inp.entry = 0 /\ phase = "running" /\ pc > 0) => pc >= 2

\* a rule entered at its second jump tests nothing and returns nothing
SecondJumpOnlyJumps ==
    inp.entry = 1 =>
        /\ phase # "returned"
        /\ phase = "running" => filters[pc + 1].code = 5

\* C17 as stated: every compiled rule begins with two unconditional jumps;
\* the first targets the body of the rule (its first predicate instruction,
\* or the terminal action when there is no predicate), the second the first
\* instruction that follows the rule.
C17_SecondJumpToRuleEnd ==
    RuleCompiled =>
        /\ EntryJumps
        /\ SecondJumpOnlyJumps
        /\ (inp.entry = 1 /\ phase = "exited") => pc = Len(filters)

\* C17: every compiled rule begins with two unconditional jumps; the first
\* targets the body of the rule, the second leads, directly or through the
\* third jump of a helper block, to the second instruction that follows the
\* rule (one past the exit of a failed predicate).
C17_SecondJumpPastRuleEnd ==
    RuleCompiled =>
        /\ EntryJumps
        /\ SecondJumpOnlyJumps
        /\ (inp.entry = 1 /\ phase = "exited") => pc = Len(filters) + 1
        /\ Len(inp.rule.conditions) <= MaxRuleConds =>
              1 + 1 + filters[2].k[2] = Len(filters) + 1

\* a rule with a helper block was entered at its second jump and left
C17_Witness_LeftThroughHelper ==
    /\ RuleCompiled
    /\ inp.entry = 1
    /\ inp.rule = RuleManyConditions
    /\ phase = "exited"
    /\ 1 + 1 + filters[2].k[2] < Len(filters)

----------------------------------------------------------------------------
\* a step of the loop of into_bpf: one condition is appended
AppendStep == phase = "rule" /\ api_result'.next = api_result.next + 1

\* the step pushed a helper block before the fragment of the condition
HelperPushed == Len(api_result'.st.accumulator) = Len(api_result.st.accumulator) + 2

\* the slice the step pushed last: the fragment of the condition
LastFragment == api_result'.st.accumulator[Len(api_result'.st.accumulator)]

\* every jump of the fragment holds a jump inside the fragment (0, 2, 3) or
\* o, o + 2 or o + 3, none of them wrapped
JumpsDerivedFrom(fragment, o) ==
    /\ o + 3 <= 255
    /\ \A i \in 1..Len(fragment) :
          /\ fragment[i].jt \in {0, 2, 3, o, o + 2, o + 3}
          /\ fragment[i].jf \in {0, 2, 3, o, o + 2, o + 3}

\* the helper blocks of a compiled rule: they begin with a jump over the two
\* jumps that follow
HelperBlocks(prog) ==
    { i \in 3..Len(prog) : prog[i] = [code |-> 5, jt |-> 0, jf |-> 0, k |-> <<0, 2>>] }

\* C18: while a rule is compiled, three helper jumps are pushed before a
\* predicate, and the running offset starts again at 1, exactly when the
\* running offset + 6 + 1 > 255; the running offset and every jt/jf derived
\* from it stay within 0..255 without wrap-around; a rule of 42 MaskedEq
\* predicates followed by one Eq gets exactly one helper block and 262
\* instructions.
C18_HelperJumpsKeepOffsetsInRange ==
    /\ [][AppendStep =>
            /\ HelperPushed <=> api_result.st.offset + 6 + 1 > 255
            /\ HelperPushed =>
                  /\ Len(api_result'.st.accumulator[Len(api_result.st.accumulator) + 1]) = 3
                  /\ \A i \in 1..3 :
                        api_result'.st.accumulator[Len(api_result.st.accumulator) + 1][i].code = 5
                  /\ api_result'.st.offset = 1 + Len(LastFragment)
                  /\ api_result'.st.rule_len = api_result.st.rule_len + 3 + Len(LastFragment)
                  /\ JumpsDerivedFrom(LastFragment, 1)
            /\ ~HelperPushed =>
                  /\ Len(api_result'.st.accumulator) = Len(api_result.st.accumulator) + 1
                  /\ api_result'.st.offset = api_result.st.offset + Len(LastFragment)
                  /\ api_result'.st.rule_len = api_result.st.rule_len + Len(LastFragment)
                  /\ JumpsDerivedFrom(LastFragment, api_result.st.offset)
            /\ ~api_result'.st.overflow
            /\ api_result'.st.offset \in 1..255]_vars
    /\ [](phase # "panicked")
    /\ []((RuleCompiled /\ inp.rule = RuleManyConditions) =>
            (Len(filters) = 262 /\ Cardinality(HelperBlocks(filters)) = 1))

\* the Eq listed after 42 MaskedEq has just been appended behind a helper block
C18_Witness_HelperBeforeLastCondition ==
    /\ phase = "rule"
    /\ inp.rule = RuleManyConditions
    /\ api_result.next = 44
    /\ api_result.st.offset = 5
    /\ api_result.st.rule_len = 260

----------------------------------------------------------------------------
(* SpecAction: a terminal action is converted to its return code, as the    *)
(* terminal instruction of a rule, and the kernel executes that instruction *)

\* upper and lower halves of the payloads tried
PayloadHighs == {0, 1, 5, 32762, 32767, 65535}
PayloadLows == {0, 1, 13, 32768, 65535}

SampleActions ==
    { Action(kind, <<0, 0>>) : kind \in {"Allow", "Kill", "Log", "Trap"} }
      \cup { Action(kind, <<hi, lo>>) :
                kind \in {"Errno", "Trace"}, hi \in PayloadHighs, lo \in PayloadLows }

InitAction ==
    /\ build \in {"debug", "release"}
    /\ phase = "action"
    /\ inp \in { [action |-> a] : a \in SampleActions }
    /\ SeccompIdle
    /\ KernelIdle
    /\ JailerIdle

\* BPF_STMT(BPF_RET + BPF_K, u32::from(action)), handed to the kernel
ConvertAction ==
    /\ phase = "action"
    /\ phase' = "running"
    /\ filters' = rule_start(inp.action).accumulator[1]
    /\ data' = NoData
    /\ pc' = 0
    /\ A' = <<0, 0>>
    /\ ret' = NoRet
    /\ api_result' = ApiResult("u32_from", TRUE, NoErr, <<>>)
    /\ UNCHANGED <<build, inp, rules, default_action, no_new_privs, jailerVars>>

NextAction ==
    \/ ConvertAction
    \/ FilterStep

SpecAction == InitAction /\ [][NextAction]_vars

\* the action was converted
Converted == phase \in {"running", "returned"} /\ api_result.call = "u32_from"

\* the upper 16 bits the kernel reads the action from, per kind
KindBits(kind) ==
    CASE kind = "Allow" -> 32767
      [] kind = "Errno" -> 5
      [] kind = "Kill" -> 0
      [] kind = "Log" -> 32764
      [] kind = "Trace" -> 32752
      [] kind = "Trap" -> 3

\* C19: the return code of an action has the upper 16 bits of its kind alone
\* (Allow 0x7fff, Errno 0x0005, Kill 0x0000, Log 0x7ffc, Trace 0x7ff0, Trap
\* 0x0003) and the lower 16 bits of its payload, x mod 2^16 for Errno(x) and
\* Trace(x) and 0 for the others; the value the filter returns is that code.
C19_ReturnCodeOfAction ==
    Converted =>
        /\ Len(filters) = 1
        /\ filters[1].code = 6
        /\ filters[1].k[1] = KindBits(inp.action.kind)
        /\ filters[1].k[2] =
              (IF inp.action.kind \in {"Errno", "Trace"} THEN inp.action.x[2] ELSE 0)
        /\ phase = "returned" => ret = filters[1].k

\* Errno with a payload whose upper half alone would turn the code into that
\* of Allow was returned as Errno with the lower half of the payload
C19_Witness_PayloadAboveSixteenBits ==
    /\ phase = "returned"
    /\ inp.action = Action("Errno", <<32762, 13>>)
    /\ ret = <<5, 13>>

----------------------------------------------------------------------------
(* SpecTwice: two contexts holding the same mapping and the same default    *)
(* action are compiled, one after the other.  Each into_bpf collects its    *)
(* own HashMap, whose iteration order is not a function of its contents     *)
(* (std's RandomState seeds every map differently), and sorts it stably.    *)

InitTwice ==
    /\ build \in {"release"}
    /\ phase = "built"
    /\ inp \in { [level |-> AdvancedLevel(m, a)] : m \in Policies, a \in DefaultActions }
    /\ SeccompIdle
    /\ KernelIdle
    /\ JailerIdle

\* the result of the second context.into_bpf() is kept in api_result
KeepSecond(r, order) ==
    /\ phase' = "compiled_again"
    /\ api_result' = [call |-> "into_bpf_again", ok |-> r.ok,
                      err |-> IF r.ok THEN NoErr ELSE <<r.err, 0>>,
                      prctl |-> <<>>, order |-> order, starts |-> r.starts,
                      prog |-> r.prog, first_order |-> api_result.order]

\* SeccompFilterContext::into_bpf of a second context with the same contents
CompileAgain ==
    /\ phase = "compiled"
    /\ \E order \in SortedOrders(inp.level.rules) :
          KeepSecond(context_into_bpf(inp.level.rules, inp.level.default_action, order),
                     order)
    /\ UNCHANGED <<build, inp, rules, default_action, no_new_privs, kernelVars, jailerVars>>

NextTwice ==
    \/ CompileContext
    \/ CompileAgain

SpecTwice == InitTwice /\ [][NextTwice]_vars

\* both compilations are done
CompiledTwice == phase = "compiled_again"

\* no two chains of the policy have the same priority
NoTies ==
    \A n1, n2 \in DOMAIN inp.level.rules :
        n1 # n2 => inp.level.rules[n1].priority # inp.level.rules[n2].priority

\* C20: compiling two policies with the same mapping from syscall numbers to
\* (priority, chain) and the same default action yields the same instruction
\* sequence, also when several chains have the same priority.
C20_CompilationDeterministic ==
    CompiledTwice => api_result.prog = filters

\* the part that holds: without tied priorities the two programs are equal
C20_DeterministicWithoutTies ==
    (CompiledTwice /\ NoTies) => api_result.prog = filters

\* two chains of priority 0 were laid out in two different orders
C20_TiedChainsSwapped ==
    /\ CompiledTwice
    /\ DOMAIN inp.level.rules = {SYS_1, SYS_9}
    /\ inp.level.rules[SYS_1].priority = 0
    /\ inp.level.rules[SYS_9].priority = 0
    /\ api_result.first_order = <<SYS_1, SYS_9>>
    /\ api_result.order = <<SYS_9, SYS_1>>
    /\ api_result.prog # filters

----------------------------------------------------------------------------
(* SpecActivator: env.run(), the last call of run().  Env is not part of    *)
(* the sources at hand; the steps are those of the activator's contract,    *)
(* the error kinds those of jailer::Error.  A run starts where run() calls  *)
(* env.run(): descriptor 3 is /dev/kvm and descriptor 4 the listener.       *)

\* a kernel or library call of the activator and the Error kind its failure
\* is wrapped into
Op(name, kind) == [name |-> name, kind |-> kind]

JoinNetNsOps == << Op("open_netns", "FileOpen"), Op("setns", "SetNetNs"),
                  Op("close_netns", "CloseNetNsFd") >>
UnshareOps == << Op("unshare", "UnshareNewNs") >>
PrivateOps == << Op("mount_private", "MountPropagationPrivate") >>
BindMountOps == << Op("mount_bind", "MountBind") >>
PivotOps == << Op("mkdir_old_root", "MkdirOldRoot"), Op("pivot_root", "PivotRoot"),
              Op("chdir", "ChdirNewRoot"), Op("umount_old_root", "UmountOldRoot"),
              Op("rmdir_old_root", "RmOldRootDir") >>
TunOps == << Op("mknod_tun", "MknodDevNetTun"), Op("chown_tun", "ChangeDevNetTunOwner") >>
DaemonizeOps == << Op("setsid", "SetSid"), Op("open_dev_null", "OpenDevNull"),
                  Op("dup2_stdin", "Dup2"), Op("dup2_stdout", "Dup2"),
                  Op("dup2_stderr", "Dup2"), Op("close_dev_null", "CloseDevNullFd") >>
\* jailer::Error has no kind of its own for setgid and setuid: the drop is
\* part of the exec request and fails as Exec
\* variant: the user id is set before the group id
DropOps_UidFirst == << Op("setuid", "Exec"), Op("setgid", "Exec") >>
DropOps == << Op("setgid", "Exec"), Op("setuid", "Exec") >>
ExecOps == << Op("exec", "Exec") >>

ActivatorOps ==
    JoinNetNsOps \o UnshareOps \o PrivateOps \o BindMountOps \o PivotOps \o TunOps
      \o DaemonizeOps \o DropOps \o ExecOps

OpNames(ops) == [i \in DOMAIN ops |-> ops[i].name]

\* errno values a failing call may report
ActivatorErrnos == {EINVAL, EACCES}

InitActivator ==
    /\ build \in {"release"}
    /\ phase = "activator"
    /\ inp \in [netns : BOOLEAN, daemonize : BOOLEAN]
    /\ SeccompIdle
    /\ KernelIdle
    /\ fds = [n \in 0 .. LISTENER_FD |->
                IF n = KVM_FD THEN Descriptor("/dev/kvm", "O_RDWR", 0, FALSE)
                ELSE IF n = LISTENER_FD THEN Descriptor("api.socket", "O_RDWR", 0, TRUE)
                ELSE Inherited]
    /\ fd_limit = OPEN_MAX
    /\ jpc = "join_netns"
    /\ jres = <<"none", 0>>
    /\ jfs = {}
    /\ jlog = <<>>

\* the calls of one step, each followed by `?`: the first that fails ends
\* env.run() with its error kind, the calls before it have taken effect
Run(ops, next) ==
    \/ /\ jlog' = jlog \o OpNames(ops)
       /\ jfs' = jfs \cup { ops[i].name : i \in DOMAIN ops }
       /\ jpc' = next
       /\ jres' = jres
    \/ \E k \in DOMAIN ops, errno \in ActivatorErrnos :
          /\ jlog' = jlog \o OpNames(SubSeq(ops, 1, k))
          /\ jfs' = jfs \cup { ops[i].name : i \in 1 .. (k - 1) }
          /\ Fail(<<ops[k].kind, errno>>)

\* a step that was not requested
Skip(next) ==
    /\ jpc' = next
    /\ UNCHANGED <<jlog, jfs, jres>>

JoinNetNs ==
    /\ jpc = "join_netns"
    /\ IF inp.netns THEN Run(JoinNetNsOps, "unshare") ELSE Skip("unshare")
    /\ UNCHANGED <<fds, fd_limit, NotJailer>>

UnshareMountNs ==
    /\ jpc = "unshare"
    /\ Run(UnshareOps, "mount_private")
    /\ UNCHANGED <<fds, fd_limit, NotJailer>>

MakeRootPrivate ==
    /\ jpc = "mount_private"
    /\ Run(PrivateOps, "mount_bind")
    /\ UNCHANGED <<fds, fd_limit, NotJailer>>

BindMountChroot ==
    /\ jpc = "mount_bind"
    /\ Run(BindMountOps, "pivot_root")
    /\ UNCHANGED <<fds, fd_limit, NotJailer>>

PivotRoot ==
    /\ jpc = "pivot_root"
    /\ Run(PivotOps, "dev_net_tun")
    /\ UNCHANGED <<fds, fd_limit, NotJailer>>

CreateDevNetTun ==
    /\ jpc = "dev_net_tun"
    /\ Run(TunOps, "daemonize")
    /\ UNCHANGED <<fds, fd_limit, NotJailer>>

Daemonize ==
    /\ jpc = "daemonize"
    /\ IF inp.daemonize THEN Run(DaemonizeOps, "drop") ELSE Skip("drop")
    /\ UNCHANGED <<fds, fd_limit, NotJailer>>

DropPrivileges ==
    /\ jpc = "drop"
    /\ Run(DropOps, "exec")
    /\ UNCHANGED <<fds, fd_limit, NotJailer>>

\* exec replaces the process image, or returns Exec(errno)
Exec ==
    /\ jpc = "exec"
    /\ \/ /\ jpc' = "done"
          /\ jres' = <<"exec", 0>>
          /\ jfs' = jfs \cup {"exec"}
       \/ /\ \E errno \in ActivatorErrnos : Fail(<<"Exec", errno>>)
          /\ jfs' = jfs
    /\ jlog' = jlog \o OpNames(ExecOps)
    /\ UNCHANGED <<fds, fd_limit, NotJailer>>

NextActivator ==
    \/ JoinNetNs
    \/ UnshareMountNs
    \/ MakeRootPrivate
    \/ BindMountChroot
    \/ PivotRoot
    \/ CreateDevNetTun
    \/ Daemonize
    \/ DropPrivileges
    \/ Exec

SpecActivator == InitActivator /\ [][NextActivator]_vars

\* env.run() returned an error
ActivatorFailed == jpc = "done" /\ jres[1] # "exec"

\* every call in the log but the last one has taken effect
AllButLastDone == \A i \in 1 .. (Len(jlog) - 1) : jlog[i] \in jfs

\* the call made last, and the kinds of error it may be wrapped into
LastCall == jlog[Len(jlog)]
KindsOf(name) == { ActivatorOps[i].kind : i \in { j \in DOMAIN ActivatorOps :
                                                    ActivatorOps[j].name = name } }

ContractualOrder ==
    /\ inp.netns => Precedes("setns", "unshare")
    /\ ~inp.netns => \A i \in DOMAIN jlog : jlog[i] # "setns"
    /\ Precedes("unshare", "mount_private")
    /\ Precedes("mount_private", "mount_bind")
    /\ Precedes("mount_bind", "pivot_root")
    /\ Precedes("mknod_tun", "setgid")
    /\ Precedes("chown_tun", "setgid")
    /\ Precedes("setgid", "setuid")
    /\ Precedes("setuid", "exec")
    /\ \A i, j \in DOMAIN jlog : jlog[i] = jlog[j] => i = j

----------------------------------------------------------------------------
\* where a run of unconditional jumps that begins at index p ends
RECURSIVE JumpChase(_, _)
JumpChase(prog, p) ==
    IF p < Len(prog) /\ prog[p + 1].code = 5
    THEN JumpChase(prog, JumpBy(p, prog[p + 1].k))
    ELSE p

\* the indices at which the rules chain[i..] begin when chain[i] begins at `at`
RECURSIVE RuleStartsFrom(_, _, _)
RuleStartsFrom(chain, i, at) ==
    IF i > Len(chain) THEN <<>>
    ELSE <<at>> \o RuleStartsFrom(chain, i + 1, at + Len(rule_into_bpf(chain[i])))

\* the second entry jump of every rule that begins at one of rule_starts is
\* an unconditional jump and the jumps from there end at target
SecondJumpsLeadTo(prog, rule_starts, target) ==
    \A r \in DOMAIN rule_starts :
        /\ prog[rule_starts[r] + 2].code = 5
        /\ JumpChase(prog, rule_starts[r] + 1) = target

\* the index at which the block after the j-th block begins: the guard of the
\* next chain, or the final default action
AfterBlock(j) ==
    IF j < Len(api_result.starts) THEN api_result.starts[j + 1] ELSE Len(filters) - 1

\* into_bpf has compiled the policy drawn, once
CompiledOnce == phase = "compiled" /\ api_result.call = "into_bpf" /\ api_result.ok

\* C22: in a compiled chain the second entry jump of every rule leads, through
\* unconditional jumps only, to the number guard of the next chain, or to the
\* final default action when the chain is the last; the not-equal branch of
\* the chain's number guard lands on the second entry jump of the first rule.
C22_SecondJumpsLeaveChain ==
    CompiledOnce =>
        \A j \in DOMAIN api_result.order :
            /\ BlockOf(j).code = 21
            /\ BlockOf(j).jt = 0
            /\ BlockOf(j).jf = 1
            /\ SecondJumpsLeadTo(
                  filters,
                  RuleStartsFrom(inp.level.rules[api_result.order[j]].chain, 1,
                                 api_result.starts[j] + 1),
                  AfterBlock(j))
            /\ filters[AfterBlock(j) + 1].code = (IF j < Len(api_result.order) THEN 21 ELSE 6)
            /\ filters[AfterBlock(j)].code = 6

\* a chain with a helper block in its first rule was laid out before another
\* chain
C22_Witness_LongChainBeforeNext ==
    /\ CompiledOnce
    /\ api_result.order = <<SYS_9, SYS_1>>
    /\ inp.level.rules[SYS_9].chain = <<RuleLong, RuleEq>>
    /\ JumpChase(filters, api_result.starts[1] + 2) = api_result.starts[2]
    /\ filters[api_result.starts[1] + 4 + filters[api_result.starts[1] + 3].k[2]].code = 5

----------------------------------------------------------------------------
\* the instructions control can pass to from the instruction at index i
Targets(prog, i) ==
    CASE prog[i].code = 5 -> { i + 1 + prog[i].k[2] }
      [] prog[i].code \in {21, 37, 53} -> { i + 1 + prog[i].jt, i + 1 + prog[i].jf }
      [] prog[i].code = 6 -> {}
      [] OTHER -> { i + 1 }

\* the instructions from which control can pass to the instruction at index t
Preds(prog, t) == { i \in DOMAIN prog : t \in Targets(prog, i) }

\* the conditional jumps of the predicate that ends just before index h
LastPredicateJumps(prog, h) ==
    { i \in (h - 6) .. (h - 1) : i >= 3 /\ prog[i].code \in {21, 37, 53} }

\* the conditional jumps of all predicates placed before index h
PredicateJumpsBefore(prog, h) == { i \in 3 .. (h - 1) : prog[i].code \in {21, 37, 53} }

\* what C23 says of the helper block at h, among the blocks hs of the rule
HelperBlockAsDescribed(prog, hs, h) ==
    /\ prog[h].code = 5 /\ prog[h + 1].code = 5 /\ prog[h + 2].code = 5
    /\ Targets(prog, h) = { h + 3 }
    /\ prog[h + 3].code = 32
    /\ Preds(prog, h) # {}
    /\ Preds(prog, h) \subseteq LastPredicateJumps(prog, h)
    /\ Targets(prog, h + 1) \subseteq { Len(prog) + 1 } \cup { b + 1 : b \in { x \in hs : x > h } }
    /\ JumpChase(prog, h) = Len(prog)
    /\ Preds(prog, h + 1) # {}
    /\ Preds(prog, h + 1) \subseteq
          PredicateJumpsBefore(prog, h) \cup { b + 1 : b \in { x \in hs : x < h } }
    /\ Targets(prog, h + 2) \subseteq { Len(prog) + 2 } \cup { b + 2 : b \in { x \in hs : x > h } }
    /\ JumpChase(prog, h + 1) = Len(prog) + 1
    /\ Preds(prog, h + 2) # {}
    /\ Preds(prog, h + 2) \subseteq { 2 } \cup { b + 2 : b \in { x \in hs : x < h } }

AllHelperBlocksAsDescribed(prog, hs) == \A h \in hs : HelperBlockAsDescribed(prog, hs, h)

\* C23: in a compiled rule each helper block's first jump, entered from the
\* predicate just before it, continues with the next predicate; its second
\* jump, entered from failing predicates before the block or from an earlier
\* block's second jump, leads to the first instruction after the rule; its
\* third jump, entered from the second entry jump or from an earlier block's
\* third jump, leads to the second instruction after the rule.
C23_HelperBlockJumps ==
    (RuleCompiled /\ phase = "running" /\ pc = 0) =>
        AllHelperBlocksAsDescribed(filters, HelperBlocks(filters))

\* in a rule with two helper blocks a failed predicate has led to the second
\* jump of the first block, from where the second block is the way out
C23_Witness_ChainedThroughLaterBlock ==
    /\ RuleCompiled
    /\ phase = "running"
    /\ Cardinality(HelperBlocks(filters)) = 2
    /\ \E h \in HelperBlocks(filters) :
          /\ pc + 1 = h + 1
          /\ Targets(filters, h + 1) # { Len(filters) + 1 }

----------------------------------------------------------------------------
\* setup_seccomp has returned from a call with an Advanced level
AdvancedSetupReturned == api_result.call = "setup_seccomp" /\ inp.level.kind = "Advanced"

\* the policy of the level does not compile: it expands beyond the ceiling
TooLarge == ExpansionLen(inp.level.rules) > 4096

\* C24: setup_seccomp(Advanced(policy)) returns success or Load(errno); for
\* a policy that does not compile it returns Load(EINVAL), not
\* ContextTooLarge, before any prctl call: the no-new-privileges bit is not
\* set and no filter is installed.
C24_CompileFailureIsLoadEinval ==
    AdvancedSetupReturned =>
        /\ api_result.ok \/ api_result.err[1] = "Load"
        /\ TooLarge =>
              /\ ~api_result.ok
              /\ api_result.err = <<"Load", 22>>
              /\ api_result.prctl = <<>>
              /\ ~no_new_privs
              /\ ~InKernel

\* setup_seccomp refused a policy one instruction too long
C24_Witness_RefusedBeforePrctl ==
    /\ AdvancedSetupReturned
    /\ ExpansionLen(inp.level.rules) = 4097
    /\ api_result.err = <<"Load", 22>>
    /\ phase = "setup_failed"

----------------------------------------------------------------------------
\* run() returned an error
RunFailed == jpc = "done" /\ jres[1] # "env.run"

\* the error kinds of each step of run()
StepKinds(step) ==
    CASE step = "open_dev_kvm" -> {"OpenDevKvm", "UnexpectedKvmFd"}
      [] step = "Env::new" -> {"Env::new"}
      [] step = "create_dir_all" -> {"CreateDir"}
      [] step = "bind" -> {"MissingParent", "UnixListener", "UnexpectedListenerFd"}
      [] step = "fcntl" -> {"GetOldFdFlags", "UnsetCloexec"}
      [] OTHER -> {}

\* some descriptor is open on the named file
SomeOpenOn(file) == \E n \in DOMAIN fds : fds[n].file = file

\* run() stopped at the step it made last, with a kind of that step, and has
\* not called env.run()
StoppedAtFailingStep ==
    /\ Len(jlog) > 0
    /\ jres[1] \in StepKinds(jlog[Len(jlog)])
    /\ \A i \in DOMAIN jlog : jlog[i] # "env.run"
    /\ \A i, j \in DOMAIN jlog : jlog[i] = jlog[j] => i = j

\* what the steps before the failing one did to /dev/kvm and to the file
\* system is still there
EarlierEffectsKept ==
    /\ jres[1] = "OpenDevKvm" <=> ~SomeOpenOn("/dev/kvm")
    /\ jres[1] = "UnexpectedKvmFd" =>
          /\ jres[2] # KVM_FD
          /\ OpenOn(jres[2], "/dev/kvm")
          /\ jlog = <<"sanitize_process", "open_dev_kvm">>
          /\ jfs = {}
    /\ (\E i \in DOMAIN jlog : jlog[i] = "bind") => "chroot_dir" \in jfs
    /\ jres[1] \in {"UnexpectedListenerFd", "GetOldFdFlags", "UnsetCloexec"} =>
          "api.socket" \in jfs

\* C25 as stated: run() stops at the first failing step with that step's
\* error kind, makes no later step, never reaches env.run(), and undoes
\* nothing of what the earlier steps did.
C25_StopsWithoutAnyCleanup ==
    RunFailed =>
        /\ StoppedAtFailingStep
        /\ EarlierEffectsKept
        /\ "api.socket" \in jfs => SomeOpenOn("api.socket")

\* C25: run() stops at the first failing step with that step's error kind,
\* makes no later step and never reaches env.run(); /dev/kvm stays open, at
\* the number UnexpectedKvmFd carries when that is the error, and the chroot
\* directory and the socket file stay; the listener's descriptor alone is
\* closed when run() returns an error after the bind.
C25_StopsAtFirstFailure ==
    /\ [](RunFailed =>
            /\ StoppedAtFailingStep
            /\ EarlierEffectsKept
            /\ ~SomeOpenOn("api.socket"))
    /\ [][jpc # "done"]_vars

\* the device was opened at another number than 3: UnexpectedKvmFd carries
\* the number and the descriptor is still open
C25_Witness_KvmAtOtherNumber ==
    /\ RunFailed
    /\ jres = <<"UnexpectedKvmFd", 0>>
    /\ OpenOn(0, "/dev/kvm")

----------------------------------------------------------------------------
(* SpecSignal: register_signal_handler and Killable::kill of sys_util       *)
(* (src/sys_util/src/signal.rs), over signal numbers of type c_int.         *)

SIGHUP == 1
SIGKILL == 9
SIGSTOP == 19
SIGSYS == 31
\* __libc_current_sigrtmax()
SIGRTMAX == 64
\* the largest signal number of the kernel
NSIG_MAX == 64
ESRCH == 3
I32_MAX == 2147483647
I32_MIN == -I32_MAX - 1

\* __libc_current_sigrtmin(): glibc keeps 32 and 33 for itself, musl 32..34
SigRtMins == {34, 35}

\* num + SIGRTMIN() on c_int, for SIGRTMIN() > 0: does it overflow, and the
\* value a release build wraps to
I32AddOverflows(a, b) == a > I32_MAX - b
I32Add(a, b) == IF I32AddOverflows(a, b) THEN I32_MIN + (a - (I32_MAX - b) - 1) ELSE a + b

SigOk(v) == [ok |-> TRUE, v |-> v, errno |-> 0]
SigErr(errno) == [ok |-> FALSE, v |-> 0, errno |-> errno]

\* validate_signal_num; sigrtmin is what SIGRTMIN() returns
validate_signal_num(num, for_vcpu, sigrtmin) ==
    IF for_vcpu
    THEN IF I32Add(num, sigrtmin) <= SIGRTMAX
         THEN SigOk(I32Add(num, sigrtmin))
         ELSE SigErr(EINVAL)
    ELSE IF SIGHUP <= num /\ num <= SIGSYS
         THEN SigOk(num)
         ELSE SigErr(EINVAL)

\* sigaction(2): -1 with errno EINVAL for a number that is no signal and for
\* SIGKILL and SIGSTOP, 0 otherwise
sigaction(sig) ==
    IF sig < 1 \/ sig > NSIG_MAX \/ sig \in {SIGKILL, SIGSTOP} THEN -1 ELSE 0

\* pthread_kill(3) returns 0 or an error number, never a negative value:
\* EINVAL for a number that is no signal or that the library keeps for
\* itself, ESRCH when the thread is gone; with signal 0 nothing is sent
pthread_kill(alive, sig, sigrtmin) ==
    IF sig < 0 \/ sig > NSIG_MAX \/ (sig > SIGSYS /\ sig < sigrtmin) THEN EINVAL
    ELSE IF ~alive THEN ESRCH
    ELSE 0

\* signal numbers the callers pass
SignalNums == {-35, -34, -26, -25, -1, 0, 1, 29, 30, 31, 32, I32_MAX}

SignalInputs ==
    { [call |-> "register_signal_handler", num |-> n, for_vcpu |-> v, sigrtmin |-> m,
       alive |-> TRUE] :
        n \in SignalNums, v \in BOOLEAN, m \in SigRtMins }
      \cup
    { [call |-> "kill", num |-> n, for_vcpu |-> TRUE, sigrtmin |-> m, alive |-> a] :
        n \in SignalNums, m \in SigRtMins, a \in BOOLEAN }

InitSignal ==
    /\ build \in {"debug", "release"}
    /\ phase = "signal"
    /\ inp \in SignalInputs
    /\ SeccompIdle
    /\ KernelIdle
    /\ JailerIdle

\* the result of a call: Ok or Err(errno), the libc calls made with their
\* signal number and return value, and whether a signal was sent
SignalResult(call, ok, errno, made, sent) ==
    [call |-> call, ok |-> ok, err |-> <<IF ok THEN "" ELSE "Error", errno>>,
     prctl |-> <<>>, made |-> made, sent |-> sent]

\* the overflow check of a debug build on num + SIGRTMIN()
AddPanics == build = "debug" /\ inp.for_vcpu /\ I32AddOverflows(inp.num, inp.sigrtmin)

\* register_signal_handler, after validate_signal_num returned v
Registered(v) ==
    IF ~v.ok
    THEN SignalResult("register_signal_handler", FALSE, v.errno, <<>>, FALSE)
    ELSE IF sigaction(v.v) = 0
    THEN SignalResult("register_signal_handler", TRUE, 0, << <<"sigaction", v.v, 0>> >>, FALSE)
    ELSE SignalResult("register_signal_handler", FALSE, EINVAL,
                      << <<"sigaction", v.v, sigaction(v.v)>> >>, FALSE)

RegisterSignalHandler ==
    /\ phase = "signal"
    /\ inp.call = "register_signal_handler"
    /\ IF AddPanics
       THEN phase' = "panicked" /\ UNCHANGED api_result
       ELSE /\ phase' = "called"
            /\ api_result' = Registered(validate_signal_num(inp.num, inp.for_vcpu, inp.sigrtmin))
    /\ UNCHANGED <<build, inp, rules, default_action, no_new_privs, kernelVars, jailerVars>>

\* Killable::kill, after validate_signal_num returned v and, when it was
\* Ok, pthread_kill returned rc
Killed(v, rc) ==
    IF ~v.ok
    THEN SignalResult("kill", FALSE, v.errno, <<>>, FALSE)
    ELSE IF rc < 0
    THEN SignalResult("kill", FALSE, rc, << <<"pthread_kill", v.v, rc>> >>, FALSE)
    ELSE SignalResult("kill", TRUE, 0, << <<"pthread_kill", v.v, rc>> >>,
                      rc = 0 /\ v.v # 0)

KillAfter(v) == api_result' = Killed(v, pthread_kill(inp.alive, v.v, inp.sigrtmin))

Kill ==
    /\ phase = "signal"
    /\ inp.call = "kill"
    /\ IF AddPanics
       THEN phase' = "panicked" /\ UNCHANGED api_result
       ELSE /\ phase' = "called"
            /\ KillAfter(validate_signal_num(inp.num, TRUE, inp.sigrtmin))
    /\ UNCHANGED <<build, inp, rules, default_action, no_new_privs, kernelVars, jailerVars>>

NextSignal ==
    \/ RegisterSignalHandler
    \/ Kill

SpecSignal == InitSignal /\ [][NextSignal]_vars

\* the call has returned
SignalCalled == phase = "called"

\* the signal number sigaction or pthread_kill was called with
ActedOn == api_result.made[1][2]

\* the range the number must lie in
InRange(sig) ==
    IF inp.for_vcpu
    THEN inp.sigrtmin <= sig /\ sig <= SIGRTMAX
    ELSE SIGHUP <= sig /\ sig <= SIGSYS

\* C26: with for_vcpu the number num + SIGRTMIN is accepted only when it
\* lies in SIGRTMIN..SIGRTMAX, without for_vcpu num only when it lies in
\* SIGHUP..SIGSYS, and EINVAL is returned otherwise; register_signal_handler
\* and kill never call sigaction or pthread_kill with a number outside the
\* range.
C26_SignalNumberInRange ==
    SignalCalled =>
        /\ Len(api_result.made) > 0 => InRange(ActedOn)
        /\ Len(api_result.made) = 0 => api_result.err = <<"Error", 22>>

\* the part that holds: a number that is not a real-time signal is acted on
\* only inside SIGHUP..SIGSYS, and no number above SIGRTMAX is acted on
C26_UpperLimitsChecked ==
    (SignalCalled /\ Len(api_result.made) > 0) =>
        /\ ActedOn <= SIGRTMAX
        /\ ~inp.for_vcpu => InRange(ActedOn)

\* C27: kill returns Ok only when the signal num + SIGRTMIN was sent; when
\* the number is refused pthread_kill is not called and an error is
\* returned; when pthread_kill returns a non-zero value kill returns an
\* error.
C27_KillChecksDelivery ==
    (SignalCalled /\ inp.call = "kill") =>
        /\ api_result.ok => api_result.sent
        /\ Len(api_result.made) = 0 => ~api_result.ok
        /\ (Len(api_result.made) > 0 /\ api_result.made[1][3] # 0) => ~api_result.ok

\* the part that holds: a refused number ends kill with EINVAL before
\* pthread_kill, and a signal is sent only when kill returns Ok
C27_RefusedNumberNotSent ==
    (SignalCalled /\ inp.call = "kill") =>
        /\ Len(api_result.made) = 0 => api_result.err = <<"Error", 22>>
        /\ api_result.sent => api_result.ok

----------------------------------------------------------------------------
\* the instructions from which some path of the program leads into S
RECURSIVE Back(_, _)
Back(prog, S) ==
    IF S \cup { i \in DOMAIN prog : Targets(prog, i) \cap S # {} } = S
    THEN S
    ELSE Back(prog, S \cup { i \in DOMAIN prog : Targets(prog, i) \cap S # {} })

\* the number guards of the installed program
Guards == { api_result.starts[j] + 1 : j \in DOMAIN api_result.starts }

\* the loads of seccomp_data.nr in the program
NrLoads(prog) == { i \in DOMAIN prog : prog[i].code = 32 /\ prog[i].k = <<0, 0>> }

\* instruction i leaves seccomp_data.nr in the accumulator if it was there,
\* or puts it there; the load of the architecture comes before the latter
KeepsNumber(prog, i) ==
    \/ prog[i].code \in {5, 21}
    \/ prog[i].code = 32 /\ prog[i].k \in { <<0, 0>>, <<0, 4>> }

\* every path into a guard of gs runs over the one load of the number and,
\* after it, over guards and unconditional jumps only
OnlyNumberBefore(prog, gs) ==
    /\ Cardinality(NrLoads(prog)) = 1
    /\ \A i \in Back(prog, gs) : KeepsNumber(prog, i)
    /\ \A i \in Back(prog, gs) : \A l \in NrLoads(prog) :
           (prog[i].code = 32 /\ prog[i].k = <<0, 4>>) => i < l
    /\ \A g \in gs : \A l \in NrLoads(prog) : l < g /\ l \in Back(prog, {g})

\* an Advanced level is installed
AdvancedInstalled == InKernel /\ inp.level.kind = "Advanced"

\* C28: whenever the execution of a compiled policy reaches the number guard
\* of a chain the accumulator holds seccomp_data.nr: the number is loaded
\* once, before the first chain, and no path leads into a guard over an
\* instruction of a predicate, which would have loaded or masked an
\* argument half.
C28_NumberInAccumulatorAtGuards ==
    /\ (AdvancedInstalled /\ phase = "installed") => OnlyNumberBefore(filters, Guards)
    /\ (AdvancedInstalled /\ phase = "running" /\ (pc + 1) \in Guards) => A = data.nr

\* the guard of the second chain is reached: the number did not match the
\* chain before it
C28_Witness_AtSecondGuard ==
    /\ AdvancedInstalled
    /\ phase = "running"
    /\ Len(api_result.starts) = 2
    /\ pc = api_result.starts[2]
    /\ inp.level.rules[api_result.order[1]].chain = <<RuleLong, RuleEq>>
    /\ A = <<0, 1>>

----------------------------------------------------------------------------
\* a step of add_rules called with at least one rule
AddRulesStep == inp'.call = "add_rules" /\ Len(inp'.new_rules) > 0

\* the entry of the number has the new rules after the ones it had and the
\* priority it had; a new entry has the supplied priority, 0 without one
EntryAfterAddRules(n) ==
    IF n \in DOMAIN rules
    THEN /\ rules'[n].chain = rules[n].chain \o inp'.new_rules
         /\ rules'[n].priority = rules[n].priority
    ELSE /\ rules'[n].chain = inp'.new_rules
         /\ rules'[n].priority =
               (IF inp'.default_priority = None THEN 0 ELSE inp'.default_priority[1])

\* C29: add_rules with a non-empty vector appends the rules after those the
\* number already has and keeps the priority of its chain, whatever priority
\* is supplied; for a number without a chain it creates the chain with the
\* supplied priority, or 0; the chains and priorities of all other numbers
\* and the default action stay as they were.
C29_AddRulesAppendsAndKeepsRest ==
    [][AddRulesStep =>
         /\ api_result'.ok
         /\ DOMAIN rules' = DOMAIN rules \cup {inp'.syscall_number}
         /\ EntryAfterAddRules(inp'.syscall_number)
         /\ \A m \in DOMAIN rules : m # inp'.syscall_number => rules'[m] = rules[m]
         /\ default_action' = default_action]_vars

\* rules were added to a chain of priority 0 with priority 1 supplied, in a
\* context that holds another chain
C29_Witness_SuppliedPriorityIgnored ==
    /\ inp.call = "add_rules"
    /\ api_result.ok
    /\ inp.default_priority = Some(1)
    /\ inp.syscall_number \in DOMAIN rules
    /\ rules[inp.syscall_number].priority = 0
    /\ Len(rules[inp.syscall_number].chain) > Len(inp.new_rules)
    /\ Cardinality(DOMAIN rules) = 2

----------------------------------------------------------------------------
(* SpecDefault: chains of default_context()                                 *)
(* (src/vmm/src/default_syscalls.rs) that begin with a rule without         *)
(* conditions are installed and run, together with a policy in which a rule *)
(* of another action follows such a rule.                                   *)

SYS_write == SYS_1
SYS_open == <<0, 0, 0, 2>>
SYS_mmap == SYS_9
SYS_close == <<0, 0, 0, 3>>

O_RDWR == 2
\* O_RDWR | O_CLOEXEC, 0x02000002
O_RDWR_CLOEXEC == <<0, 0, 512, 2>>
PROT_NONE == 0
\* MAP_PRIVATE | MAP_ANONYMOUS
MAP_PRIVATE_ANONYMOUS == 34

\* the first rules of the chain of SYS_open
OpenChain ==
    << SeccompRuleNew(<<>>, Action("Allow", <<0, 0>>)),
       SeccompRuleNew(<<Cond(1, "Eq", Zero64, Small(O_RDWR))>>, Action("Allow", <<0, 0>>)),
       SeccompRuleNew(<<Cond(1, "Eq", Zero64, O_RDWR_CLOEXEC)>>, Action("Allow", <<0, 0>>)) >>

\* the first rules of the chain of SYS_mmap
MmapChain ==
    << SeccompRuleNew(<<>>, Action("Allow", <<0, 0>>)),
       SeccompRuleNew(<<Cond(0, "Eq", Zero64, Zero64),
                        Cond(2, "Eq", Zero64, Small(PROT_NONE)),
                        Cond(3, "Eq", Zero64, Small(MAP_PRIVATE_ANONYMOUS)),
                        Cond(4, "Eq", Zero64, Max64),
                        Cond(5, "Eq", Zero64, Zero64)>>,
                      Action("Allow", <<0, 0>>)) >>

\* SYS_write, SYS_open and SYS_mmap as default_context() registers them
DefaultExcerpt ==
    [n \in {SYS_write, SYS_open, SYS_mmap} |->
        [priority |-> 0,
         chain |-> CASE n = SYS_open -> OpenChain
                     [] n = SYS_mmap -> MmapChain
                     [] OTHER -> << SeccompRuleNew(<<>>, Action("Allow", <<0, 0>>)) >>]]

\* a rule without conditions before a rule of another action, beside a
\* chain with the two rules the other way round
ShadowPolicy ==
    [n \in {SYS_write, SYS_mmap} |->
        [priority |-> 0,
         chain |-> IF n = SYS_write THEN <<RuleAllow, RuleEq>> ELSE <<RuleEq, RuleAllow>>]]

DefaultLevels ==
    { AdvancedLevel(DefaultExcerpt, Action("Trap", <<0, 0>>)),
      AdvancedLevel(ShadowPolicy, Action("Trap", <<0, 0>>)) }

\* argument vectors: one that holds for the second rule of both chains and
\* for RuleEq's neighbours, and others
DefaultArgs ==
    { <<Zero64, Small(O_RDWR), Small(PROT_NONE), Small(MAP_PRIVATE_ANONYMOUS), Max64, Zero64>>,
      <<Small(1), O_RDWR_CLOEXEC, Small(1), Small(1), Small(1), Small(1)>>,
      <<Zero64, Zero64, Zero64, Zero64, Zero64, Zero64>>,
      <<Max64, Max64, Max64, Max64, Max64, Max64>> }

DefaultDatas ==
    { [nr |-> LowU32(n), arch |-> AUDIT_ARCH_X86_64, instruction_pointer |-> Zero64,
       args |-> a] : n \in {SYS_write, SYS_open, SYS_mmap, SYS_close}, a \in DefaultArgs }

InitDefault ==
    /\ build \in {"release"}
    /\ phase = "built"
    /\ inp \in { [level |-> l] : l \in DefaultLevels }
    /\ rules = NoRules
    /\ default_action = Action("Trap", <<0, 0>>)
    /\ api_result = ApiResult("none", TRUE, NoErr, <<>>)
    /\ no_new_privs = FALSE
    /\ KernelIdle
    /\ JailerIdle

\* the kernel runs the installed filter on a call of the process
DefaultCall == \E d \in DefaultDatas : SyscallEnter(d)

NextDefault ==
    \/ InstallLevel
    \/ DefaultCall
    \/ FilterStep

SpecDefault == InitDefault /\ [][NextDefault]_vars

\* the chain registered for the number of the call, and the place of its
\* block in the order
CalledChain == inp.level.rules[Small(data.nr[2])].chain
CalledBlock == CHOOSE j \in DOMAIN api_result.order : api_result.order[j] = Small(data.nr[2])

\* the filter runs on a call whose chain begins with a rule without
\* conditions
LedByEmptyRule ==
    /\ AdvancedInstalled
    /\ OnSyscall
    /\ Small(data.nr[2]) \in DOMAIN inp.level.rules
    /\ Len(CalledChain[1].conditions) = 0

\* the three instructions of the rule at index s (from 0) of the program
EmptyRuleAt(prog, s, action) ==
    /\ prog[s + 1] = [code |-> 5, jt |-> 0, jf |-> 0, k |-> <<0, 1>>]
    /\ prog[s + 2] = [code |-> 5, jt |-> 0, jf |-> 0, k |-> <<0, 2>>]
    /\ prog[s + 3] = [code |-> 6, jt |-> 0, jf |-> 0, k |-> ActionToU32(action)]

\* C30: a rule without conditions compiles to three instructions, its two
\* entry jumps and the return of its action, and matches every call: the
\* filter returns its action and no instruction of a rule after it in the
\* chain, other than a second entry jump, is ever executed; the chains of
\* SYS_mmap and SYS_open of the default policy begin with such a rule of
\* action Allow, and the filter returns Allow for them whatever the
\* arguments.
C30_EmptyRuleMatchesAlways ==
    LedByEmptyRule =>
        /\ Len(rule_into_bpf(CalledChain[1])) = 3
        /\ EmptyRuleAt(filters, api_result.starts[CalledBlock] + 1, CalledChain[1].action)
        /\ pc <= api_result.starts[CalledBlock] + 3
        /\ phase = "returned" => ret = ActionToU32(CalledChain[1].action)
        /\ phase # "exited"
        /\ (phase = "returned" /\ inp.level.rules = DefaultExcerpt) => ret = <<32767, 0>>

\* SYS_mmap was called with arguments the second rule of its chain holds
\* for, and the filter returned from the first rule
C30_Witness_MmapAllowedByFirstRule ==
    /\ LedByEmptyRule
    /\ inp.level.rules = DefaultExcerpt
    /\ data.nr = <<0, 9>>
    /\ data.args[4] = Small(MAP_PRIVATE_ANONYMOUS)
    /\ phase = "returned"
    /\ pc = api_result.starts[CalledBlock] + 3
    /\ ret = <<32767, 0>>

====
